---- MODULE Spec2Model ----
(***************************************************************************)
(* Model of scripts/gitlab_ci_summarizer.py: the diff splitter, degrader   *)
(* and batch packer, the changed-file filter, and the remote quick-command *)
(* (RQC) client with its request retry loop, poll loop and run retry.      *)
(*                                                                         *)
(* Text is a sequence of atoms.  An atom is one of the literals the code's *)
(* regular expressions look for ("diff --git", a newline, "@@", the        *)
(* placeholder line) or a run of n bytes of other text holding none of     *)
(* them and no whitespace.  Two runs are never adjacent (Cat merges them), *)
(* so a string has exactly one representation and = is string equality.    *)
(***************************************************************************)
EXTENDS Integers, Sequences, FiniteSets, TLC

VARIABLES
    pc,                 \* position in get_partial_summary_inputs
    diff,               \* the diff text handed to split_diff
    file_diffs,         \* the segments handed to prepare_file_diffs
    joint_diffs,        \* the batches prepare_file_diffs returns
    batch_file_headers, \* per batch, the file headers the packer logs
    file_diff,          \* simplify_file_diff: its argument
    simplified_diff,    \* simplify_file_diff: what it returned
    output,             \* the name-status listing handed to _parse_name_status
    filter_pc,          \* position in the parse and filter calls
    file_statuses,      \* the change records handed to filter_changed_files
    include_func,       \* the predicate, as the set of paths it accepts
    allowed_paths,      \* the list filter_changed_files returns
    rqc_pc,             \* position in run_rqc or stackspot_make_request
    run_retries,        \* run_rqc: its retries parameter
    run_attempt,        \* run_rqc: attempt
    execution_id,       \* run_rqc: the execution being polled (0: none)
    poll_attempt,       \* poll_rqc_execution: attempt
    execution_time,     \* poll_rqc_execution: execution_time
    response_data,      \* poll_rqc_execution: the latest poll response
    req_method,         \* stackspot_make_request: method
    req_retries,        \* stackspot_make_request: its retries parameter
    req_attempt,        \* stackspot_make_request: attempt
    req_tries,          \* attempts the current request has made so far
    req_outcome,        \* how the latest attempt ended
    exchanges,          \* credential exchanges the current request has made so far
    token_status,       \* HTTP status of the latest credential exchange (0: no answer)
    return_value,       \* what the call returned to its caller
    error,              \* the latest exception raised out of the poll loop or the request
    slept,              \* seconds the latest step slept
    submissions,        \* create_rqc_execution calls made
    polls,              \* remote side: per execution, the polls answered
    terminal,           \* remote side: per execution, a terminal status was reported
    main_pc,            \* position in main
    env,                \* the environment variables that are set and not empty
    exit_code,          \* the exit code of the run (-1: still running)
    git_runs,           \* git commands get_gitlab_mr_diff has run
    batch_index,        \* get_partial_summaries: i, the batch at hand
    partial_summary_response, \* what run_rqc gave for the batch at hand
    parsed,             \* how the latest parse_json_response call ended
    partial_summaries,  \* get_partial_summaries: the list built so far
    jobs,               \* run_rqc calls made: slug, payload size, how it ended
    comment,            \* main: the comment to post
    caught,             \* the exception main's except clause caught
    posts               \* post_gitlab_mr_comment calls: body sent, HTTP status

diffVars ==
    <<pc, diff, file_diffs, joint_diffs, batch_file_headers, file_diff, simplified_diff>>

filterVars == <<output, filter_pc, file_statuses, include_func, allowed_paths>>

rqcVars ==
    <<rqc_pc, run_retries, run_attempt, execution_id, poll_attempt, execution_time,
      response_data, req_method, req_retries, req_attempt, req_tries, req_outcome,
      exchanges, token_status, return_value, error, slept, submissions, polls, terminal>>

mainVars ==
    <<main_pc, env, exit_code, git_runs, batch_index, partial_summary_response, parsed,
      partial_summaries, jobs, comment, caught, posts>>

vars == <<diffVars, filterVars, rqcVars, mainVars>>

(***************************************************************************)
(* Bounds of the model.                                                    *)
(***************************************************************************)
MaxSegs == 4
MaxAtoms == 5
MaxRecords == 3
MaxLines == 3
MaxChars == 4
MaxHunks == 3

(***************************************************************************)
(* Text.                                                                   *)
(***************************************************************************)
MAX_RQC_INPUT_SIZE_BYTES == 50000

DiffGit == [k |-> "diff --git", n |-> 10]
NL == [k |-> "newline", n |-> 1]
At == [k |-> "@@", n |-> 2]
Omitted == [k |-> "{Changes are too large to process and have been omitted}", n |-> 56]
Txt(n) == [k |-> "text", n |-> n]

IsTxt(a) == a.k = "text"

\* a + b on strings: the runs that meet at the seam become one run
Cat(a, b) ==
    IF a = <<>> THEN b
    ELSE IF b = <<>> THEN a
    ELSE IF IsTxt(a[Len(a)]) /\ IsTxt(b[1])
         THEN SubSeq(a, 1, Len(a) - 1) \o <<Txt(a[Len(a)].n + b[1].n)>> \o Tail(b)
         ELSE a \o b

RECURSIVE SumBytes(_)
SumBytes(s) == IF s = <<>> THEN 0 ELSE Head(s).n + SumBytes(Tail(s))

string_size_in_bytes(string) == SumBytes(string)

\* a test that takes a string of exactly the ceiling for too large
string_is_too_large_AtCeiling(string) ==
    string_size_in_bytes(string) >= MAX_RQC_INPUT_SIZE_BYTES

string_is_too_large(string) == string_size_in_bytes(string) > MAX_RQC_INPUT_SIZE_BYTES

\* str.strip(): leading and trailing whitespace removed
RECURSIVE lstrip(_)
lstrip(s) == IF s # <<>> /\ Head(s) = NL THEN lstrip(Tail(s)) ELSE s

RECURSIVE rstrip(_)
rstrip(s) ==
    IF s # <<>> /\ s[Len(s)] = NL THEN rstrip(SubSeq(s, 1, Len(s) - 1)) ELSE s

strip(s) == rstrip(lstrip(s))

\* str.splitlines()[0] of a non-empty string
RECURSIVE first_line(_)
first_line(s) ==
    IF s = <<>> \/ Head(s) = NL THEN <<>> ELSE <<Head(s)>> \o first_line(Tail(s))

\* the regular expression ^diff --git (MULTILINE) matches at position p
FileHeaderAt(s, p) ==
    /\ p \in 1..Len(s)
    /\ s[p] = DiffGit
    /\ (p = 1 \/ s[p - 1] = NL)

\* re.split(r'(?=^diff --git)', s): cut before every match, the piece before a
\* match at position 1 being the empty string
RECURSIVE re_split(_, _, _, _)
re_split(s, p, cur, out) ==
    IF p > Len(s) THEN Append(out, cur)
    ELSE IF FileHeaderAt(s, p) THEN re_split(s, p + 1, <<s[p]>>, Append(out, cur))
    ELSE re_split(s, p + 1, Append(cur, s[p]), out)

NonBlank(block) == strip(block) # <<>>

split_diff(d) ==
    LET pieces == SelectSeq(re_split(d, 1, <<>>, <<>>), NonBlank)
    IN  [i \in 1..Len(pieces) |-> strip(pieces[i])]

Min(S) == CHOOSE x \in S : \A y \in S : x <= y

\* re.sub of (@@.*?@@)(.*?)(?=(^diff --git|\Z)) by \1\n{placeholder}\n, from
\* position i on: the leftmost "@@" that has a later "@@", up to the first "@@"
\* after it, then up to the next file header or the end of the string
RECURSIVE re_sub(_, _)
re_sub(s, i) ==
    LET opens == {p \in i..Len(s) : s[p] = At /\ \E e \in (p + 1)..Len(s) : s[e] = At}
    IN  IF opens = {} THEN SubSeq(s, i, Len(s))
        ELSE LET o == Min(opens)
                 e == Min({x \in (o + 1)..Len(s) : s[x] = At})
                 q == Min({x \in (e + 1)..Len(s) : FileHeaderAt(s, x)} \cup {Len(s) + 1})
             IN  SubSeq(s, i, e) \o <<NL, Omitted, NL>> \o re_sub(s, q)

\* a degrader that ends what it returns with one more placeholder
simplify_file_diff_Trailing(text) == re_sub(text, 1) \o <<Omitted, NL>>

simplify_file_diff(text) == re_sub(text, 1)

\* file_diff_simplified of one loop iteration
Degraded(text) ==
    IF string_is_too_large(text) THEN simplify_file_diff(text) ELSE text

\* a packer that tests the segment alone, not the batch it would make
PackStep_SegmentOnly(st, file_diff_simplified, last) ==
    LET tooLarge == string_is_too_large(file_diff_simplified)
        closed == IF tooLarge /\ st.cur # <<>> THEN Append(st.joint, st.cur) ELSE st.joint
        cur == IF tooLarge THEN file_diff_simplified ELSE Cat(st.cur, file_diff_simplified)
    IN  [joint |-> IF last THEN Append(closed, cur) ELSE closed, cur |-> cur]

\* a packer that starts the new batch without emitting the one it closes
PackStep_NoEmit(st, file_diff_simplified, last) ==
    LET tooLarge == string_is_too_large(Cat(st.cur, file_diff_simplified))
        cur == IF tooLarge THEN file_diff_simplified ELSE Cat(st.cur, file_diff_simplified)
    IN  [joint |-> IF last THEN Append(st.joint, cur) ELSE st.joint, cur |-> cur]

\* one iteration of the packing loop; st = [joint |-> joint_diffs, cur |-> current_joint_diff]
PackStep(st, file_diff_simplified, last) ==
    LET tooLarge == string_is_too_large(Cat(st.cur, file_diff_simplified))
        closed == IF tooLarge /\ st.cur # <<>> THEN Append(st.joint, st.cur) ELSE st.joint
        cur == IF tooLarge THEN file_diff_simplified ELSE Cat(st.cur, file_diff_simplified)
    IN  [joint |-> IF last THEN Append(closed, cur) ELSE closed, cur |-> cur]

RECURSIVE PackFrom(_, _, _)
PackFrom(fds, index, st) ==
    IF index > Len(fds) THEN st.joint
    ELSE PackFrom(fds, index + 1, PackStep(st, Degraded(fds[index]), index = Len(fds)))

prepare_file_diffs(fds) == PackFrom(fds, 1, [joint |-> <<>>, cur |-> <<>>])

\* the per-batch log line of the packer: the first line of every block of the batch
BatchFileHeaders(batch) ==
    LET blocks == split_diff(batch)
    IN  [i \in 1..Len(blocks) |-> first_line(blocks[i])]

(***************************************************************************)
(* Properties of the packer.                                               *)
(***************************************************************************)
RECURSIVE CatAll(_)
CatAll(ss) == IF ss = <<>> THEN <<>> ELSE Cat(Head(ss), CatAll(Tail(ss)))

\* the segments as the packer is to place them: one over the ceiling replaced
\* by simplify_file_diff of it, every other one as it is
DegradedSegments ==
    [i \in 1..Len(file_diffs) |->
        IF SumBytes(file_diffs[i]) > 50000
        THEN simplify_file_diff(file_diffs[i]) ELSE file_diffs[i]]

\* how many of the leading segments of ds make up batch b exactly (0: none do)
SegmentsOf(b, ds) ==
    LET fits == {k \in 1..Len(ds) : CatAll(SubSeq(ds, 1, k)) = b}
    IN  IF fits = {} THEN 0 ELSE Min(fits)

\* the number of segments in each batch when the batches are, in order, runs of
\* whole consecutive segments that use every segment once; a 0 entry otherwise
RECURSIVE Grouping(_, _)
Grouping(bs, ds) ==
    IF bs = <<>> THEN (IF ds = <<>> THEN <<>> ELSE <<0>>)
    ELSE LET k == SegmentsOf(Head(bs), ds)
         IN  IF k = 0 THEN <<0>>
             ELSE <<k>> \o Grouping(Tail(bs), SubSeq(ds, k + 1, Len(ds)))

Packed == pc = "inputs"

NonEmptySegments == \A i \in 1..Len(file_diffs) : file_diffs[i] # <<>>

BatchSegments == Grouping(joint_diffs, DegradedSegments)

\* C1: of the batches returned for non-empty segments, one over 50,000 bytes is
\* exactly one degraded segment (itself over 50,000 bytes), and one that holds
\* two or more segments is at most 50,000 bytes.
C1_OversizeBatchIsSingleSegment ==
    (Packed /\ NonEmptySegments) =>
        /\ Len(BatchSegments) = Len(joint_diffs)
        /\ \A i \in 1..Len(joint_diffs) :
              /\ SumBytes(joint_diffs[i]) > 50000 =>
                    /\ BatchSegments[i] = 1
                    /\ \E j \in 1..Len(file_diffs) :
                          /\ DegradedSegments[j] = joint_diffs[i]
                          /\ SumBytes(DegradedSegments[j]) > 50000
              /\ BatchSegments[i] >= 2 => SumBytes(joint_diffs[i]) <= 50000

\* a batch of two segments of exactly 50,000 bytes beside a batch of one
\* segment that is over the ceiling after degradation
C1_Witness ==
    /\ Packed /\ NonEmptySegments
    /\ \E i, j \in 1..Len(joint_diffs) :
          /\ BatchSegments[i] = 2 /\ SumBytes(joint_diffs[i]) = 50000
          /\ BatchSegments[j] = 1 /\ SumBytes(joint_diffs[j]) > 50000
          /\ \E x \in 1..Len(file_diffs) :
                file_diffs[x] # joint_diffs[j] /\ DegradedSegments[x] = joint_diffs[j]

\* C2: for non-empty segments every batch is non-empty, the batches are in order
\* runs of whole consecutive degraded segments using each segment exactly once
\* (so their concatenation is that of the degraded segments), and no batch is
\* returned exactly when no segment was given.
C2_BatchesReconstructSegments ==
    (Packed /\ NonEmptySegments) =>
        /\ \A i \in 1..Len(joint_diffs) : joint_diffs[i] # <<>>
        /\ Len(BatchSegments) = Len(joint_diffs)
        /\ \A i \in 1..Len(BatchSegments) : BatchSegments[i] >= 1
        /\ CatAll(joint_diffs) = CatAll(DegradedSegments)
        /\ (joint_diffs = <<>>) <=> (file_diffs = <<>>)

\* three segments in two batches, one of the segments degraded
C2_Witness ==
    /\ Packed /\ NonEmptySegments
    /\ Len(file_diffs) = 3 /\ Len(joint_diffs) = 2
    /\ BatchSegments \in {<<1, 2>>, <<2, 1>>}
    /\ \E x \in 1..3 : DegradedSegments[x] # file_diffs[x]

\* split_diff applied to every batch, the blocks in batch order
RECURSIVE Resplit(_)
Resplit(bs) == IF bs = <<>> THEN <<>> ELSE split_diff(Head(bs)) \o Resplit(Tail(bs))

\* C3: round trip: splitting a diff text, packing the segments and splitting
\* every batch again gives back the packed segments, as many and with the same
\* boundaries.
C3_RoundTrip ==
    (Packed /\ file_diffs = split_diff(diff)) =>
        Resplit(joint_diffs) = [i \in 1..Len(file_diffs) |-> strip(DegradedSegments[i])]

(***************************************************************************)
(* Inputs.                                                                 *)
(***************************************************************************)
\* a one-hunk file diff: header line, hunk header line, hunk body
FileDiff(hdr, body) == <<DiffGit, Txt(hdr), NL, At, Txt(8), At, NL, Txt(body)>>

Segments ==
    { FileDiff(16, 19960),          \* 20,000 bytes
      FileDiff(16, 29960),          \* 30,000 bytes: with the one above exactly 50,000
      FileDiff(16, 29961),          \* 30,001 bytes
      FileDiff(16, 59960),          \* 60,000 bytes, degrades to 97
      FileDiff(55000, 100),         \* degrades, and is over the ceiling still
      <<DiffGit, Txt(60000)>>,      \* over the ceiling, no hunk to degrade
      <<Txt(7)>>,                   \* not a file diff
      <<>> }

RECURSIVE SeqsUpTo(_, _)
SeqsUpTo(S, n) ==
    IF n = 0 THEN {<<>>}
    ELSE LET shorter == SeqsUpTo(S, n - 1)
         IN  shorter \cup {Append(s, x) : s \in {t \in shorter : Len(t) = n - 1}, x \in S}

\* n hunks: hunk header line, then a body of that many bytes
RECURSIVE Hunks(_, _)
Hunks(n, body) ==
    IF n = 0 THEN <<>> ELSE <<NL, At, Txt(8), At, NL, Txt(body)>> \o Hunks(n - 1, body)

\* a file diff of n hunks
HunkFileDiffs ==
    {<<DiffGit, Txt(16)>> \o Hunks(n, body) : n \in 0..MaxHunks, body \in {40, 30000}}

Canonical(s) == \A p \in 1..(Len(s) - 1) : ~(IsTxt(s[p]) /\ IsTxt(s[p + 1]))

RECURSIVE JoinLines(_)
JoinLines(ss) ==
    IF ss = <<>> THEN <<>> ELSE Cat(Cat(Head(ss), <<NL>>), JoinLines(Tail(ss)))

Atoms == {DiffGit, NL, At, Txt(5), Txt(30000)}

\* file diffs of 10,000, 20,000 and 25,000 bytes
SizedSegments == {FileDiff(16, 9960), FileDiff(16, 19960), FileDiff(16, 24960)}

SegSeqs == SeqsUpTo(Segments, MaxSegs) \cup SeqsUpTo(SizedSegments, MaxSegs)

FileDiffTexts ==
    Segments \cup HunkFileDiffs \cup {s \in SeqsUpTo(Atoms, MaxAtoms) : Canonical(s)}

DiffTexts ==
    {s \in SeqsUpTo(Atoms, MaxAtoms) : Canonical(s)}
        \cup {JoinLines(ss) : ss \in SeqsUpTo(Segments \ {<<>>}, MaxSegs)}

(***************************************************************************)
(* get_partial_summary_inputs, and prepare_file_diffs called on its own.   *)
(***************************************************************************)
(***************************************************************************)
(* filter_changed_files.  A change record is a dict: a function from some  *)
(* of the keys status, path, old, new.  A status is a sequence of          *)
(* characters, a path an opaque string.                                    *)
(***************************************************************************)
\* dict.get(key, "")
Get(info, key) == IF key \in DOMAIN info THEN info[key] ELSE ""

\* info.get("status", "").startswith("R")
IsRename(info) ==
    LET status == IF "status" \in DOMAIN info THEN info["status"] ELSE <<>>
    IN  Len(status) >= 1 /\ status[1] = "R"

\* a filter that wants both paths of a rename accepted
AllowedOf_BothAccepted(info, include) ==
    IF IsRename(info)
    THEN IF Get(info, "old") \in include /\ Get(info, "new") \in include
         THEN <<Get(info, "new")>> ELSE <<>>
    ELSE IF Get(info, "path") \in include THEN <<Get(info, "path")>> ELSE <<>>

\* what one record adds to the list allowed
AllowedOf(info, include) ==
    IF IsRename(info)
    THEN IF Get(info, "old") \in include \/ Get(info, "new") \in include
         THEN <<Get(info, "new")>> ELSE <<>>
    ELSE IF Get(info, "path") \in include THEN <<Get(info, "path")>> ELSE <<>>

RECURSIVE Allowed(_, _)
Allowed(statuses, include) ==
    IF statuses = <<>> THEN <<>>
    ELSE AllowedOf(Head(statuses), include) \o Allowed(Tail(statuses), include)

\* a pass that keeps every path, seen or not
Unique_KeepAll(allowed, seen, unique) == unique \o allowed

\* the pass that removes duplicates while preserving order
RECURSIVE Unique(_, _, _)
Unique(allowed, seen, unique) ==
    IF allowed = <<>> THEN unique
    ELSE IF Head(allowed) \notin seen
         THEN Unique(Tail(allowed), seen \cup {Head(allowed)}, Append(unique, Head(allowed)))
         ELSE Unique(Tail(allowed), seen, unique)

filter_changed_files(statuses, include) == Unique(Allowed(statuses, include), {}, <<>>)

Paths == {"a", "b", "c"}

Records ==
    [status : {<<"M">>}, path : Paths]
        \cup { [status |-> <<"R", "1", "0", "0">>, old |-> "a", new |-> "b"],
               [status |-> <<"R", "0", "7", "5">>, old |-> "b", new |-> "c"],
               [status |-> <<"R">>, old |-> "c", new |-> "a"],
               [status |-> <<"R", "1", "0", "0">>],
               [status |-> <<"D">>] }

(***************************************************************************)
(* _parse_name_status.  The listing is a sequence of characters; a field   *)
(* of a line becomes the status (a sequence of characters) or a path (a    *)
(* string) of a change record.                                             *)
(***************************************************************************)
TAB == "\t"
LF == "\n"
SP == " "

Whitespace == {TAB, LF, SP}

\* the string made of the characters cs
RECURSIVE Str(_)
Str(cs) == IF cs = <<>> THEN "" ELSE Head(cs) \o Str(Tail(cs))

\* str.strip() of a character sequence
RECURSIVE StripLeft(_)
StripLeft(cs) == IF cs # <<>> /\ Head(cs) \in Whitespace THEN StripLeft(Tail(cs)) ELSE cs

RECURSIVE StripRight(_)
StripRight(cs) ==
    IF cs # <<>> /\ cs[Len(cs)] \in Whitespace
    THEN StripRight(SubSeq(cs, 1, Len(cs) - 1)) ELSE cs

StripChars(cs) == StripRight(StripLeft(cs))

\* str.split(sep): the pieces between the separators, empty pieces kept
RECURSIVE Split(_, _, _, _)
Split(cs, sep, cur, out) ==
    IF cs = <<>> THEN Append(out, cur)
    ELSE IF Head(cs) = sep THEN Split(Tail(cs), sep, <<>>, Append(out, cur))
    ELSE Split(Tail(cs), sep, Append(cur, Head(cs)), out)

\* str.splitlines(): no line for the empty string, none after a final newline
splitlines(cs) ==
    LET pieces == Split(cs, LF, <<>>, <<>>)
    IN  IF cs = <<>> THEN <<>>
        ELSE IF pieces[Len(pieces)] = <<>> THEN SubSeq(pieces, 1, Len(pieces) - 1)
        ELSE pieces

\* status.startswith("R")
StartsWithR(status) == Len(status) >= 1 /\ status[1] = "R"

\* a parser that takes a rename for one as soon as the line has two fields
RecordOf_RenameOfTwo(line) ==
    LET parts == Split(line, TAB, <<>>, <<>>)
        status == parts[1]
    IN  IF StartsWithR(status) /\ Len(parts) >= 2
        THEN <<[status |-> status, old |-> Str(parts[2]),
                new |-> Str(parts[IF Len(parts) >= 3 THEN 3 ELSE 2])]>>
        ELSE IF Len(parts) >= 2 THEN <<[status |-> status, path |-> Str(parts[2])]>>
        ELSE <<>>

\* the body of the loop over the lines: what one line appends to files
RecordOf(line) ==
    LET parts == Split(line, TAB, <<>>, <<>>)
        status == parts[1]
    IN  IF StartsWithR(status) /\ Len(parts) >= 3
        THEN <<[status |-> status, old |-> Str(parts[2]), new |-> Str(parts[3])]>>
        ELSE IF Len(parts) >= 2 THEN <<[status |-> status, path |-> Str(parts[2])]>>
        ELSE <<>>

RECURSIVE ParseLines(_)
ParseLines(lines) ==
    IF lines = <<>> THEN <<>> ELSE RecordOf(Head(lines)) \o ParseLines(Tail(lines))

_parse_name_status(out) == ParseLines(splitlines(StripChars(out)))

NameStatusLines ==
    { <<"M", TAB, "a">>,
      <<"A", TAB, "b">>,
      <<"R", "1", "0", "0", TAB, "a", TAB, "b">>,
      <<"R", TAB, "b", TAB, "c">>,
      <<"R", "1", "0", "0", TAB, "a">>,         \* a rename line of two fields
      <<"M", TAB, "a", TAB, "b">>,              \* a third field on a line that is no rename
      <<"M", TAB>>,                             \* an empty second field
      <<TAB, "a">>,                             \* an empty first field
      <<SP, "M", TAB, "c">>,                    \* a status after a blank
      <<"M">>,                                  \* one field
      <<>> }

\* the lines, each ended by its newline, as git writes them
RECURSIVE Listing(_)
Listing(lines) ==
    IF lines = <<>> THEN <<>> ELSE Head(lines) \o <<LF>> \o Listing(Tail(lines))

ListingChars == {TAB, LF, "R", "a"}

Listings ==
    {Listing(ls) : ls \in SeqsUpTo(NameStatusLines, MaxLines)}
        \cup SeqsUpTo(ListingChars, MaxChars)

\* should_include accepts every path: the paths a record of the model can carry
should_include ==
    Paths \cup {""} \cup {Str(f) : f \in SeqsUpTo({"R", "a"}, MaxChars)}

FilterIdle ==
    /\ output = <<>>
    /\ filter_pc = "idle"
    /\ file_statuses = <<>>
    /\ include_func = {}
    /\ allowed_paths = <<>>

(***************************************************************************)
(* The remote quick-command client.  An HTTP exchange is what the service  *)
(* answers: a status (0: no answer, a connection error) and a JSON body.   *)
(***************************************************************************)
RQC_STATUS_COMPLETED == "COMPLETED"
RQC_STATUS_FAILED == "FAILED"
RQC_TIMEOUT_MINUTES == 15
RQC_SECONDS_TO_WAIT == 10
RQC_TIMEOUT_LIMIT_Short == ((RQC_TIMEOUT_MINUTES * 60) \div RQC_SECONDS_TO_WAIT) - 1
RQC_TIMEOUT_LIMIT == (RQC_TIMEOUT_MINUTES * 60) \div RQC_SECONDS_TO_WAIT
\* a default budget of one more retry
DEFAULT_REQUEST_RETRIES_OneMore == 3 + 1

DEFAULT_REQUEST_RETRIES == 3
DEFAULT_RUN_RETRIES == 1

None == "None"
NoJson == [null |-> TRUE]
NoError == [kind |-> "none", status |-> 0]

ErrorStatuses == {401, 403, 404, 429, 500, 503}

TokenExchanges ==
    {[status |-> 200, body |-> b] : b \in {[access_token |-> "t"], [error |-> "e"]}}
        \cup {[status |-> st, body |-> NoJson] : st \in ErrorStatuses \cup {0}}

PollBodies ==
    { [message |-> "m"],
      [progress |-> [percent |-> "50"]],
      [progress |-> [status |-> "RUNNING"]],
      [progress |-> [status |-> "CREATED"]],
      [progress |-> [status |-> "COMPLETED"], result |-> "r1"],
      [progress |-> [status |-> "COMPLETED"], result |-> "r2"],
      [progress |-> [status |-> "COMPLETED"]],
      [progress |-> [status |-> "FAILED"]] }

Responses(method) ==
    {[status |-> 200, body |-> b] :
        b \in IF method = "GET" THEN PollBodies ELSE {[execution |-> "id"]}}
        \cup {[status |-> st, body |-> NoJson] : st \in ErrorStatuses \cup {0}}

Raise(kind, status) == [kind |-> kind, status |-> status, json |-> NoJson]

\* response.raise_for_status() raises
IsHttpError(x) == x.status >= 400

\* the try body of one attempt: the credential exchange, then the request
TryBody(method, tok, rsp) ==
    IF tok.status = 0 THEN Raise("ConnectionError", 0)
    ELSE IF IsHttpError(tok) THEN Raise("HTTPError", tok.status)
    ELSE IF "access_token" \notin DOMAIN tok.body THEN Raise("KeyError", 0)
    ELSE IF method \notin {"GET", "POST"} THEN Raise("ValueError", 0)
    ELSE IF rsp.status = 0 THEN Raise("ConnectionError", 0)
    ELSE IF IsHttpError(rsp) THEN Raise("HTTPError", rsp.status)
    ELSE [kind |-> "return", status |-> rsp.status, json |-> rsp.body]

\* a client that keeps the token of its first attempt for the attempts after it
Exchanged_Once(before) == IF before = 0 THEN 1 ELSE before

\* line 264: every attempt calls get_stackspot_access_token
Exchanged(before) == before + 1

\* no request was sent
NotSent == [status |-> 0, body |-> NoJson]

\* what an attempt can get for its request: an answer of the service when the
\* credential exchange gave a token, nothing when it gave none
Answers(method, tok) ==
    IF tok.status = 200 /\ "access_token" \in DOMAIN tok.body /\ method \in {"GET", "POST"}
    THEN Responses(method)
    ELSE {NotSent}

RECURSIVE Pow2(_)
Pow2(n) == IF n = 0 THEN 1 ELSE 2 * Pow2(n - 1)

\* a retry loop that gives up one attempt early
RequestStep_OneFewer(attempt, retries, out) ==
    IF out.kind = "return" THEN [next |-> "return", sleep |-> 0]
    ELSE IF /\ out.kind = "HTTPError"
            /\ attempt < retries - 1
            /\ out.status \in {401, 403, 500, 503}
         THEN [next |-> "retry", sleep |-> Pow2(attempt + 1)]
         ELSE [next |-> "raise", sleep |-> 0]

\* a retry loop that retries every HTTP error and backs off 2^attempt seconds
RequestStep_Eager(attempt, retries, out) ==
    IF out.kind = "return" THEN [next |-> "return", sleep |-> 0]
    ELSE IF out.kind = "HTTPError" /\ attempt < retries
         THEN [next |-> "retry", sleep |-> Pow2(attempt)]
         ELSE [next |-> "raise", sleep |-> 0]

\* how one attempt of stackspot_make_request ends: the return, or the except clause
RequestStep(attempt, retries, out) ==
    IF out.kind = "return" THEN [next |-> "return", sleep |-> 0]
    ELSE IF /\ out.kind = "HTTPError"
            /\ attempt < retries
            /\ out.status \in {401, 403, 500, 503}
         THEN [next |-> "retry", sleep |-> Pow2(attempt + 1)]
         ELSE [next |-> "raise", sleep |-> 0]

\* a poll loop that takes FAILED for one more status to wait on
PollOutcome_FailedWaits(data) ==
    IF "progress" \notin DOMAIN data THEN [kind |-> "return", value |-> None]
    ELSE IF "status" \notin DOMAIN data.progress THEN [kind |-> "KeyError", value |-> None]
    ELSE IF data.progress.status = RQC_STATUS_COMPLETED
         THEN [kind |-> "return",
               value |-> IF "result" \in DOMAIN data THEN data.result ELSE None]
    ELSE [kind |-> "wait", value |-> None]

\* what poll_rqc_execution does with one poll response
PollOutcome(data) ==
    IF "progress" \notin DOMAIN data THEN [kind |-> "return", value |-> None]
    ELSE IF "status" \notin DOMAIN data.progress THEN [kind |-> "KeyError", value |-> None]
    ELSE IF data.progress.status = RQC_STATUS_COMPLETED
         THEN [kind |-> "return",
               value |-> IF "result" \in DOMAIN data THEN data.result ELSE None]
    ELSE IF data.progress.status = RQC_STATUS_FAILED
         THEN [kind |-> "StackSpotAIError", value |-> None]
    ELSE [kind |-> "wait", value |-> None]

\* a response that reports a terminal status
IsTerminal(data) ==
    /\ "progress" \in DOMAIN data
    /\ "status" \in DOMAIN data.progress
    /\ data.progress.status \in {RQC_STATUS_COMPLETED, RQC_STATUS_FAILED}

\* run_rqc goes round again after a timeout that many times over
RetryOnTimeout_OneMore(attempt, retries) == attempt <= retries

\* run_rqc: the except clause for RQCExecutionTimeoutError retries
RetryOnTimeout(attempt, retries) == attempt < retries

RqcIdle ==
    /\ rqc_pc = "idle"
    /\ run_retries = 0
    /\ run_attempt = 0
    /\ execution_id = 0
    /\ poll_attempt = 0
    /\ execution_time = 0
    /\ response_data = NoJson
    /\ req_method = "none"
    /\ req_retries = 0
    /\ req_attempt = 0
    /\ req_tries = 0
    /\ req_outcome = NoError
    /\ exchanges = 0
    /\ token_status = 0
    /\ return_value = None
    /\ error = NoError
    /\ slept = 0
    /\ submissions = 0
    /\ polls = <<>>
    /\ terminal = <<>>

(***************************************************************************)
(* Job results and comments.  run_rqc gives back a Python value: None, a   *)
(* str or, when the service put one there, a dict.  A str is a sequence of *)
(* pieces; a piece is a code fence, a language tag, whitespace, a JSON     *)
(* document or a run of other text, n characters of w bytes each (w = 0:   *)
(* lone surrogates, which UTF-8 cannot encode).  A run of other text       *)
(* starts with a character that is no letter, digit or brace.              *)
(***************************************************************************)
Fence == [a |-> "code fence", n |-> 3, w |-> 1]
Lang == [a |-> "json", n |-> 4, w |-> 1]
Ws == [a |-> "whitespace", n |-> 1, w |-> 1]
Json(v) == [a |-> "JSON", n |-> 24, w |-> 1, v |-> v]
Chars(n, w) == [a |-> "text", n |-> n, w |-> w]

\* JSON values, as json.loads returns them
Object(file) == [t |-> "object", file |-> file]
EmptyObject == [t |-> "object"]
List(items) == [t |-> "list", items |-> items]
String(x) == [t |-> "string", s |-> x]
Number(x) == [t |-> "number", n |-> x]
Null == [t |-> "null"]

\* an object with its file and a summary text of that many characters, and the
\* document that json.dumps writes for it
Summary(file, size) == [t |-> "object", file |-> file, summary |-> size]
JsonSummary(file, size) ==
    [a |-> "JSON", n |-> 28 + size, w |-> 1, v |-> Summary(file, size)]

\* Python values run_rqc returns
PyNone == [type |-> "NoneType"]
PyStr(text) == [type |-> "str", text |-> text]
PyDict == [type |-> "dict"]

\* how a call ends: with a value, or with an exception
Return(v) == [kind |-> "return", value |-> v]
Raised(exception) == [kind |-> exception, value |-> Null]

\* bool(v) of a parsed value
Truthy(v) ==
    CASE v.t = "object" -> "file" \in DOMAIN v
      [] v.t = "list" -> v.items # <<>>
      [] v.t = "string" -> v.s # ""
      [] v.t = "number" -> v.n # 0
      [] OTHER -> FALSE

\* len(text.encode('utf-8'))
RECURSIVE LenBytes(_)
LenBytes(text) == IF text = <<>> THEN 0 ELSE Head(text).n * Head(text).w + LenBytes(Tail(text))

\* text[:k]
RECURSIVE Slice(_, _)
Slice(text, k) ==
    IF text = <<>> \/ k <= 0 THEN <<>>
    ELSE IF Head(text).n <= k THEN <<Head(text)>> \o Slice(Tail(text), k - Head(text).n)
    ELSE <<Chars(k, Head(text).w)>>

\* str.strip() of a job result
RECURSIVE WsLeft(_)
WsLeft(text) == IF text # <<>> /\ Head(text) = Ws THEN WsLeft(Tail(text)) ELSE text

RECURSIVE WsRight(_)
WsRight(text) ==
    IF text # <<>> /\ text[Len(text)] = Ws
    THEN WsRight(SubSeq(text, 1, Len(text) - 1)) ELSE text

\* [a-zA-Z0-9{}]* after the opening fence: language tags, and the head of a JSON
\* document that follows the fence on the same line: all of {}, a number or
\* null, the opening brace of any other object
RECURSIVE EatLang(_)
EatLang(text) ==
    IF text = <<>> THEN text
    ELSE IF Head(text) = Lang THEN EatLang(Tail(text))
    ELSE IF Head(text).a = "JSON"
         THEN CASE Head(text).v.t \in {"number", "null"} -> EatLang(Tail(text))
                [] Head(text).v = EmptyObject -> EatLang(Tail(text))
                [] Head(text).v.t = "object" -> <<Chars(Head(text).n - 1, 1)>> \o Tail(text)
                [] OTHER -> text
    ELSE text

strip_response(response) ==
    LET stripped == WsRight(WsLeft(response))
        opened == IF stripped # <<>> /\ Head(stripped) = Fence
                  THEN WsLeft(EatLang(Tail(stripped))) ELSE stripped
    IN  IF opened # <<>> /\ opened[Len(opened)] = Fence
        THEN SubSeq(opened, 1, Len(opened) - 1) ELSE opened

\* text.encode('utf-8', errors='replace').decode('utf-8'): a "?" for every
\* character that cannot be encoded
validate_encoding(text) ==
    [i \in 1..Len(text) |-> IF text[i].w = 0 THEN Chars(text[i].n, 1) ELSE text[i]]

\* json.dumps(text) succeeds for every str: the text is returned as it is
sanitize_for_json(text) == text

\* json.loads: one JSON document, whitespace around it allowed
loads(text) ==
    LET doc == WsRight(WsLeft(text))
    IN  IF Len(doc) = 1 /\ doc[1].a = "JSON" THEN Return(doc[1].v)
        ELSE Raised("JSONDecodeError")

parse_json_response(response) ==
    IF response.type # "str" THEN Raised("AttributeError")
    ELSE LET text == strip_response(response.text)
             parsed_response == loads(sanitize_for_json(validate_encoding(text)))
         IN  IF text = <<>> THEN Return(EmptyObject)
             ELSE IF parsed_response.kind = "return" THEN parsed_response
             ELSE Return(EmptyObject)

TruncatedSuffix == <<[a |-> "... (truncated due to size limit)", n |-> 35, w |-> 1]>>

validate_comment_size(comment_body) ==
    IF LenBytes(comment_body) > 1048576
    THEN Slice(comment_body, 1048000) \o TruncatedSuffix
    ELSE comment_body

\* the fixed comments of main and get_total_summary
FallbackComment ==
    <<Chars(1, 3), [a |-> "Failed to generate AI summary", n |-> 146, w |-> 1]>>

NoChangesComment ==
    <<Chars(1, 4), [a |-> "No significant changes detected", n |-> 72, w |-> 1]>>

\* an error comment that says nothing of the exception
ErrorComment_Fixed(e) ==
    <<Chars(1, 3), [a |-> "AI Summary Failed", n |-> 109, w |-> 1, e |-> "an error"]>>

\* the error comment, str(e) in its middle
ErrorComment(e) ==
    <<Chars(1, 3), [a |-> "AI Summary Failed", n |-> 109, w |-> 1, e |-> e]>>

NoException == [kind |-> "none"]

MainIdle ==
    /\ main_pc = "idle"
    /\ env = {}
    /\ exit_code = -1
    /\ git_runs = 0
    /\ batch_index = 0
    /\ partial_summary_response = PyNone
    /\ parsed = Raised("none")
    /\ partial_summaries = <<>>
    /\ jobs = <<>>
    /\ comment = <<>>
    /\ caught = NoException
    /\ posts = <<>>

DiffIdle ==
    /\ file_diff = <<>>
    /\ simplified_diff = <<>>
    /\ pc = "idle"
    /\ diff = <<>>
    /\ file_diffs = <<>>
    /\ joint_diffs = <<>>
    /\ batch_file_headers = <<>>

InitDiff ==
    /\ MainIdle
    /\ FilterIdle
    /\ RqcIdle
    /\ \/ pc = "split_diff" /\ diff \in DiffTexts /\ file_diffs = <<>> /\ file_diff = <<>>
       \/ pc = "prepare_file_diffs" /\ diff = <<>> /\ file_diffs \in SegSeqs /\ file_diff = <<>>
       \/ /\ pc = "simplify_file_diff"
          /\ diff = <<>>
          /\ file_diffs = <<>>
          /\ file_diff \in FileDiffTexts
    /\ joint_diffs = <<>>
    /\ batch_file_headers = <<>>
    /\ simplified_diff = <<>>

SplitDiff ==
    /\ pc = "split_diff"
    /\ file_diffs' = split_diff(diff)
    /\ pc' = "prepare_file_diffs"
    /\ UNCHANGED <<diff, joint_diffs, batch_file_headers, file_diff, simplified_diff,
                   filterVars, rqcVars, mainVars>>

PrepareFileDiffs ==
    /\ pc = "prepare_file_diffs"
    /\ joint_diffs' = prepare_file_diffs(file_diffs)
    /\ batch_file_headers' =
           [i \in 1..Len(joint_diffs') |-> BatchFileHeaders(joint_diffs'[i])]
    /\ pc' = "inputs"
    /\ UNCHANGED <<diff, file_diffs, file_diff, simplified_diff, filterVars, rqcVars, mainVars>>

\* simplify_file_diff called on a file diff
SimplifyFileDiff ==
    /\ pc = "simplify_file_diff"
    /\ simplified_diff' = simplify_file_diff(file_diff)
    /\ pc' = "simplified"
    /\ UNCHANGED <<diff, file_diffs, joint_diffs, batch_file_headers, file_diff,
                   filterVars, rqcVars, mainVars>>

\* simplify_file_diff called on what it returned
SimplifyAgain ==
    /\ pc = "simplified"
    /\ file_diff' = simplified_diff
    /\ simplified_diff' = simplify_file_diff(simplified_diff)
    /\ pc' = "simplified_twice"
    /\ UNCHANGED <<diff, file_diffs, joint_diffs, batch_file_headers, filterVars, rqcVars, mainVars>>

NextDiff == SplitDiff \/ PrepareFileDiffs \/ SimplifyFileDiff \/ SimplifyAgain

SpecDiff == InitDiff /\ [][NextDiff]_vars

RECURSIVE SumSeq(_)
SumSeq(ns) == IF ns = <<>> THEN 0 ELSE Head(ns) + SumSeq(Tail(ns))

\* the first segment of batch k, as the packer placed it
FirstSegmentOf(k) == DegradedSegments[1 + SumSeq(SubSeq(BatchSegments, 1, k - 1))]

\* C28: the packer is greedy with an inclusive ceiling: a batch of two or more
\* segments is at most 50,000 bytes, and a batch followed by another is, with
\* the first segment of that other one appended, over 50,000 bytes (so a
\* segment that brings the batch to exactly 50,000 is appended); segments of
\* 10,000, 20,000 and 25,000 bytes give the batches [10,000 + 20,000] and
\* [25,000].
C28_GreedyInclusiveCeiling ==
    (Packed /\ NonEmptySegments) =>
        /\ Len(BatchSegments) = Len(joint_diffs)
        /\ \A k \in 1..Len(joint_diffs) :
              /\ BatchSegments[k] >= 1
              /\ BatchSegments[k] >= 2 =>
                     SumBytes(joint_diffs[k]) <= MAX_RQC_INPUT_SIZE_BYTES
              /\ k < Len(joint_diffs) =>
                     SumBytes(joint_diffs[k]) + SumBytes(FirstSegmentOf(k + 1))
                         > MAX_RQC_INPUT_SIZE_BYTES
        /\ file_diffs = <<FileDiff(16, 9960), FileDiff(16, 19960), FileDiff(16, 24960)>> =>
               joint_diffs = <<Cat(FileDiff(16, 9960), FileDiff(16, 19960)),
                               FileDiff(16, 24960)>>

\* the second segment brings the first batch to exactly 50,000 bytes and is
\* appended; the third opens the second batch
C28_Witness ==
    /\ Packed
    /\ file_diffs = <<FileDiff(16, 19960), FileDiff(16, 29960), FileDiff(16, 19960)>>
    /\ Len(joint_diffs) = 2
    /\ SumBytes(joint_diffs[1]) = MAX_RQC_INPUT_SIZE_BYTES
    /\ BatchSegments = <<2, 1>>

\* the segments of 10,000, 20,000 and 25,000 bytes, packed
C28_Example ==
    /\ Packed
    /\ file_diffs = <<FileDiff(16, 9960), FileDiff(16, 19960), FileDiff(16, 24960)>>
    /\ Len(joint_diffs) = 2
    /\ SumBytes(joint_diffs[1]) = 30000 /\ SumBytes(joint_diffs[2]) = 25000

\* split_diff was applied to a diff text
WasSplit == pc \in {"prepare_file_diffs", "inputs"} /\ diff # <<>>

\* the segments are found in the text one after another, from position p on
RECURSIVE InSourceOrder(_, _, _)
InSourceOrder(segs, text, p) ==
    IF segs = <<>> THEN TRUE
    ELSE LET seg == Head(segs)
             at == {q \in p..(Len(text) - Len(seg) + 1) :
                       SubSeq(text, q, q + Len(seg) - 1) = seg}
         IN  /\ at # {}
             /\ InSourceOrder(Tail(segs), text, Min(at) + Len(seg))

StartsAtMarker(seg) == seg # <<>> /\ Head(seg) = DiffGit

\* C29: for every diff text split_diff returns the segments in source order,
\* none of them empty, every one starting with the file header marker, the
\* first one included when the text does not begin with the marker.
C29_EverySegmentStartsAtMarker ==
    WasSplit =>
        /\ InSourceOrder(file_diffs, diff, 1)
        /\ \A i \in 1..Len(file_diffs) : file_diffs[i] # <<>>
        /\ \A i \in 1..Len(file_diffs) : StartsAtMarker(file_diffs[i])

\* the same, the marker being required of the first segment only when the
\* text, blank lines aside, begins with it
C29_SegmentsAfterFirstStartAtMarker ==
    WasSplit =>
        /\ InSourceOrder(file_diffs, diff, 1)
        /\ \A i \in 1..Len(file_diffs) : file_diffs[i] # <<>>
        /\ \A i \in 2..Len(file_diffs) : StartsAtMarker(file_diffs[i])
        /\ (file_diffs # <<>> /\ StartsAtMarker(strip(diff))) => StartsAtMarker(file_diffs[1])

\* the text before the first "@@"
RECURSIVE HeaderOf(_)
HeaderOf(s) == IF s = <<>> \/ Head(s) = At THEN <<>> ELSE <<Head(s)>> \o HeaderOf(Tail(s))

\* C14: simplify_file_diff applied to what it returned returns it unchanged,
\* and the text before the first hunk header is the same in its argument and
\* in what it returns.
C14_IdempotentHeaderKept ==
    /\ pc = "simplified_twice" => simplified_diff = file_diff
    /\ pc \in {"simplified", "simplified_twice"} =>
           HeaderOf(simplified_diff) = HeaderOf(file_diff)

\* a degraded file diff degraded again
C14_Witness ==
    /\ pc = "simplified_twice"
    /\ file_diff = <<DiffGit, Txt(16), NL, At, Txt(8), At, NL, Omitted, NL>>
    /\ simplified_diff = file_diff

\* the positions of the hunk header lines of s: "@@", text, "@@" from the start
\* of a line to its end
HunkHeaderLines(s) ==
    {p \in 1..Len(s) :
        /\ s[p] = At /\ (p = 1 \/ s[p - 1] = NL)
        /\ p + 2 <= Len(s) /\ IsTxt(s[p + 1]) /\ s[p + 2] = At
        /\ (p + 2 = Len(s) \/ s[p + 3] = NL)}

\* C15: what simplify_file_diff returns for a file diff has as many hunk
\* header lines as the file diff, each followed by one placeholder line.
C15_EveryHunkHeaderKept ==
    (pc = "simplified" /\ file_diff \in HunkFileDiffs) =>
        /\ Cardinality(HunkHeaderLines(simplified_diff))
              = Cardinality(HunkHeaderLines(file_diff))
        /\ \A p \in HunkHeaderLines(simplified_diff) :
              /\ p + 5 <= Len(simplified_diff)
              /\ SubSeq(simplified_diff, p + 3, p + 5) = <<NL, Omitted, NL>>

(***************************************************************************)
(* filter_changed_files called with any records and any predicate.         *)
(***************************************************************************)
InitFilter ==
    /\ MainIdle
    /\ DiffIdle
    /\ RqcIdle
    /\ \/ /\ filter_pc = "call"
          /\ output = <<>>
          /\ file_statuses \in SeqsUpTo(Records, MaxRecords)
          /\ include_func \in SUBSET (Paths \cup {""}) \cup {should_include}
       \/ /\ filter_pc = "parse"
          /\ output \in Listings
          /\ file_statuses = <<>>
          /\ include_func \in {should_include, {"a"}, {"b", ""}, {}}
    /\ allowed_paths = <<>>

\* get_gitlab_mr_diff: the listing git printed is parsed
ParseNameStatus ==
    /\ filter_pc = "parse"
    /\ file_statuses' = _parse_name_status(output)
    /\ filter_pc' = "parsed"
    /\ UNCHANGED <<output, include_func, allowed_paths, diffVars, rqcVars, mainVars>>

FilterChangedFiles ==
    /\ filter_pc \in {"call", "parsed"}
    /\ allowed_paths' = filter_changed_files(file_statuses, include_func)
    /\ filter_pc' = "returned"
    /\ UNCHANGED <<output, file_statuses, include_func, diffVars, rqcVars, mainVars>>

NextFilter == ParseNameStatus \/ FilterChangedFiles

SpecFilter == InitFilter /\ [][NextFilter]_vars

\* the position of the first occurrence of x in s
FirstIndex(s, x) == Min({i \in 1..Len(s) : s[i] = x})

AcceptedPaths == Allowed(file_statuses, include_func)

\* C10: the returned list holds no path twice, holds exactly the paths of the
\* accepted records, and has them in the order of their first occurrence.
C10_NoDuplicatesFirstSeenOrder ==
    filter_pc = "returned" =>
        /\ \A i, j \in 1..Len(allowed_paths) :
              i # j => allowed_paths[i] # allowed_paths[j]
        /\ {allowed_paths[i] : i \in 1..Len(allowed_paths)}
              = {AcceptedPaths[i] : i \in 1..Len(AcceptedPaths)}
        /\ \A i, j \in 1..Len(allowed_paths) :
              i < j => FirstIndex(AcceptedPaths, allowed_paths[i])
                           < FirstIndex(AcceptedPaths, allowed_paths[j])

\* a path accepted twice with another one in between, returned once
C10_Witness ==
    /\ filter_pc = "returned"
    /\ Len(AcceptedPaths) = 3
    /\ AcceptedPaths[1] = AcceptedPaths[3] /\ AcceptedPaths[1] # AcceptedPaths[2]
    /\ AcceptedPaths[1] \in Paths /\ AcceptedPaths[2] \in Paths
    /\ allowed_paths = <<AcceptedPaths[1], AcceptedPaths[2]>>
    /\ \E i \in 1..3 : IsRename(file_statuses[i])

\* p is one of the returned paths
Returned(p) == \E i \in 1..Len(allowed_paths) : allowed_paths[i] = p

\* every path a record carries, and every path returned
PathsInPlay ==
    {Get(file_statuses[i], k) : i \in 1..Len(file_statuses), k \in {"path", "old", "new"}}
        \cup {allowed_paths[i] : i \in 1..Len(allowed_paths)}

\* C11: a path is returned exactly when it is the new path of a rename record
\* whose old or new path the predicate accepts, or the path of another record
\* that the predicate accepts; a rename record on its own never returns its old
\* path; with the default predicate the path of every record is returned.
C11_IncludedExactlyWhenAccepted ==
    filter_pc = "returned" =>
        /\ \A p \in PathsInPlay :
              Returned(p) <=>
                  \E i \in 1..Len(file_statuses) :
                      LET info == file_statuses[i]
                      IN  IF IsRename(info)
                          THEN /\ Get(info, "new") = p
                               /\ \/ Get(info, "old") \in include_func
                                  \/ Get(info, "new") \in include_func
                          ELSE Get(info, "path") = p /\ p \in include_func
        /\ (/\ Len(file_statuses) = 1
            /\ IsRename(file_statuses[1])
            /\ Get(file_statuses[1], "old") # Get(file_statuses[1], "new")) =>
                  ~Returned(Get(file_statuses[1], "old"))
        /\ include_func = should_include =>
              \A i \in 1..Len(file_statuses) :
                  Returned(Get(file_statuses[i],
                               IF IsRename(file_statuses[i]) THEN "new" ELSE "path"))

\* a rename returned for its old path alone, beside a record that is rejected
C11_Witness ==
    /\ filter_pc = "returned"
    /\ include_func = {"a"}
    /\ file_statuses = << [status |-> <<"R", "1", "0", "0">>, old |-> "a", new |-> "b"],
                          [status |-> <<"M">>, path |-> "c"] >>
    /\ allowed_paths = <<"b">>

Parsed == filter_pc = "parsed"

\* the record the rule of the fields gives for one line: none, or one
RecordByFields(line) ==
    LET fields == Split(line, TAB, <<>>, <<>>)
    IN  IF Len(fields) >= 3 /\ Len(fields[1]) > 0 /\ fields[1][1] = "R"
        THEN <<[status |-> fields[1], old |-> Str(fields[2]), new |-> Str(fields[3])]>>
        ELSE IF Len(fields) >= 2
             THEN <<[status |-> fields[1], path |-> Str(fields[2])]>>
             ELSE <<>>

RECURSIVE RecordsByFields(_)
RecordsByFields(lines) ==
    IF lines = <<>> THEN <<>>
    ELSE RecordByFields(Head(lines)) \o RecordsByFields(Tail(lines))

\* C12 as stated: the records are those of the lines of the input text, line by
\* line in order: a rename record for a status starting with R and 3 fields or
\* more, a plain record for 2 fields or more otherwise, none for fewer fields;
\* never more records than lines.
C12_RecordPerInputLine ==
    Parsed =>
        /\ file_statuses = RecordsByFields(splitlines(output))
        /\ Len(file_statuses) <= Len(splitlines(output))

\* C12 amended: the records are those of the lines of the input text without
\* its leading and trailing whitespace (blanks, tabs, newlines), line by line
\* in order, by the same rule of the fields; never more records than the input
\* text has lines.
C12_RecordPerStrippedLine ==
    Parsed =>
        /\ file_statuses = RecordsByFields(splitlines(StripChars(output)))
        /\ Len(file_statuses) <= Len(splitlines(StripChars(output)))
        /\ Len(file_statuses) <= Len(splitlines(output))

\* a rename record, no record for a line of one field, a plain record for a
\* rename line of two fields
C12_Witness ==
    /\ Parsed
    /\ Len(splitlines(output)) = 3
    /\ file_statuses = << [status |-> <<"R", "1", "0", "0">>, old |-> "a", new |-> "b"],
                          [status |-> <<"R", "1", "0", "0">>, path |-> "a"] >>

\* the path filter_changed_files takes for a record
PrimaryPath(info) == Get(info, IF IsRename(info) THEN "new" ELSE "path")

\* C13: every parsed record has a non-empty primary path, and the filter
\* applied to parsed records returns no empty path.
C13_NonEmptyPrimaryPath ==
    /\ Parsed => \A i \in 1..Len(file_statuses) : PrimaryPath(file_statuses[i]) # ""
    /\ (filter_pc = "returned" /\ file_statuses = _parse_name_status(output)) =>
           ~Returned("")

(***************************************************************************)
(* run_rqc, and stackspot_make_request called on its own.  Every step is   *)
(* one attempt of stackspot_make_request with what follows it in its       *)
(* callers up to the next attempt.                                         *)
(***************************************************************************)
InitRqc ==
    /\ MainIdle
    /\ DiffIdle
    /\ FilterIdle
    /\ \/ /\ rqc_pc = "create"
          /\ run_retries \in {0, DEFAULT_RUN_RETRIES, 2}
          /\ req_method = "POST"
          /\ req_retries = DEFAULT_REQUEST_RETRIES
       \/ /\ rqc_pc = "request"
          /\ run_retries = 0
          /\ req_method \in {"GET", "POST", "PUT"}
          /\ req_retries \in {0, 1, DEFAULT_REQUEST_RETRIES}
    /\ run_attempt = 0
    /\ execution_id = 0
    /\ poll_attempt = 0
    /\ execution_time = 0
    /\ response_data = NoJson
    /\ req_attempt = 0
    /\ req_tries = 0
    /\ req_outcome = NoError
    /\ exchanges = 0
    /\ token_status = 0
    /\ return_value = None
    /\ error = NoError
    /\ slept = 0
    /\ submissions = 0
    /\ polls = <<>>
    /\ terminal = <<>>

\* the except clause sleeps and the loop goes to its next attempt
RetryRequest(out, step) ==
    /\ req_attempt' = req_attempt + 1
    /\ slept' = step.sleep
    /\ UNCHANGED <<rqc_pc, run_attempt, execution_id, poll_attempt, execution_time,
                   response_data, req_method, return_value, error, polls, terminal>>

\* the exception leaves stackspot_make_request and, not being one run_rqc
\* retries, run_rqc as well
RaiseOut(exception) ==
    /\ rqc_pc' = "raised"
    /\ error' = exception
    /\ slept' = 0
    /\ UNCHANGED <<run_attempt, execution_id, poll_attempt, execution_time,
                   req_method, req_attempt, return_value>>

\* stackspot_make_request called on its own: one attempt
RequestAttempt ==
    /\ rqc_pc = "request"
    /\ \E tok \in TokenExchanges :
       \E rsp \in Answers(req_method, tok) :
        LET out == TryBody(req_method, tok, rsp)
            step == RequestStep(req_attempt, req_retries, out)
        IN  /\ req_outcome' = [kind |-> out.kind, status |-> out.status]
            /\ req_tries' = IF req_attempt = 0 THEN 1 ELSE req_tries + 1
            /\ exchanges' = Exchanged(IF req_attempt = 0 THEN 0 ELSE exchanges)
            /\ token_status' = tok.status
            /\ CASE step.next = "retry" -> RetryRequest(out, step)
                 [] step.next = "raise" ->
                        /\ RaiseOut(req_outcome')
                        /\ UNCHANGED <<response_data, polls, terminal>>
                 [] OTHER ->
                        /\ rqc_pc' = "returned"
                        /\ return_value' = "json"
                        /\ slept' = 0
                        /\ UNCHANGED <<run_attempt, execution_id, poll_attempt,
                                       execution_time, response_data, req_method,
                                       req_attempt, error, polls, terminal>>
    /\ UNCHANGED <<run_retries, req_retries, submissions, diffVars, filterVars, mainVars>>

\* create_rqc_execution: one attempt of its POST
SubmitAttempt ==
    /\ rqc_pc = "create"
    /\ \E tok \in TokenExchanges :
       \E rsp \in Answers("POST", tok) :
        LET out == TryBody("POST", tok, rsp)
            step == RequestStep(req_attempt, req_retries, out)
        IN  /\ req_outcome' = [kind |-> out.kind, status |-> out.status]
            /\ req_tries' = IF req_attempt = 0 THEN 1 ELSE req_tries + 1
            /\ exchanges' = Exchanged(IF req_attempt = 0 THEN 0 ELSE exchanges)
            /\ token_status' = tok.status
            /\ submissions' = IF req_attempt = 0 THEN submissions + 1 ELSE submissions
            /\ CASE step.next = "retry" -> RetryRequest(out, step)
                 [] step.next = "raise" ->
                        /\ RaiseOut(req_outcome')
                        /\ UNCHANGED <<response_data, polls, terminal>>
                 [] OTHER ->
                        \* the execution exists; poll_rqc_execution starts
                        /\ polls' = Append(polls, 0)
                        /\ terminal' = Append(terminal, FALSE)
                        /\ execution_id' = Len(polls) + 1
                        /\ rqc_pc' = "poll"
                        /\ poll_attempt' = 0
                        /\ execution_time' = 0
                        /\ req_method' = "GET"
                        /\ req_attempt' = 0
                        /\ slept' = 0
                        /\ UNCHANGED <<run_attempt, response_data, return_value, error>>
    /\ UNCHANGED <<run_retries, req_retries, diffVars, filterVars, mainVars>>

\* poll_rqc_execution: one attempt of the GET of one poll and, when it is
\* answered, the rest of the loop body
PollAttempt ==
    /\ rqc_pc = "poll"
    /\ \E tok \in TokenExchanges :
       \E rsp \in Answers("GET", tok) :
        LET out == TryBody("GET", tok, rsp)
            step == RequestStep(req_attempt, req_retries, out)
            seen == PollOutcome(out.json)
        IN  /\ req_outcome' = [kind |-> out.kind, status |-> out.status]
            /\ req_tries' = IF req_attempt = 0 THEN 1 ELSE req_tries + 1
            /\ exchanges' = Exchanged(IF req_attempt = 0 THEN 0 ELSE exchanges)
            /\ token_status' = tok.status
            /\ CASE step.next = "retry" -> RetryRequest(out, step)
                 [] step.next = "raise" ->
                        /\ RaiseOut(req_outcome')
                        /\ UNCHANGED <<response_data, polls, terminal>>
                 [] OTHER ->
                        /\ response_data' = out.json
                        /\ polls' = [polls EXCEPT ![execution_id] = @ + 1]
                        /\ terminal' = [terminal EXCEPT ![execution_id] = @ \/ IsTerminal(out.json)]
                        /\ CASE seen.kind = "return" ->
                                    /\ rqc_pc' = "returned"
                                    /\ return_value' = seen.value
                                    /\ slept' = 0
                                    /\ UNCHANGED <<run_attempt, execution_id, poll_attempt,
                                                   execution_time, req_method, req_attempt,
                                                   error>>
                             [] seen.kind = "wait" ->
                                    /\ execution_time' = execution_time + RQC_SECONDS_TO_WAIT
                                    /\ slept' = RQC_SECONDS_TO_WAIT
                                    /\ poll_attempt' = poll_attempt + 1
                                    /\ req_attempt' = 0
                                    /\ UNCHANGED return_value
                                    /\ IF poll_attempt + 1 < RQC_TIMEOUT_LIMIT
                                       THEN UNCHANGED <<rqc_pc, run_attempt, execution_id,
                                                        req_method, error>>
                                       ELSE \* RQCExecutionTimeoutError, caught by run_rqc
                                            /\ error' = [kind |-> "RQCExecutionTimeoutError",
                                                         status |-> 0]
                                            /\ UNCHANGED execution_id
                                            /\ IF RetryOnTimeout(run_attempt, run_retries)
                                               THEN /\ run_attempt' = run_attempt + 1
                                                    /\ rqc_pc' = "create"
                                                    /\ req_method' = "POST"
                                               ELSE /\ rqc_pc' = "raised"
                                                    /\ UNCHANGED <<run_attempt, req_method>>
                             [] OTHER ->
                                    \* KeyError or StackSpotAIError: out of run_rqc
                                    /\ rqc_pc' = "raised"
                                    /\ error' = [kind |-> seen.kind, status |-> 0]
                                    /\ slept' = 0
                                    /\ UNCHANGED <<run_attempt, execution_id, poll_attempt,
                                                   execution_time, req_method, req_attempt,
                                                   return_value>>
    /\ UNCHANGED <<run_retries, req_retries, submissions, diffVars, filterVars, mainVars>>

NextRqc == RequestAttempt \/ SubmitAttempt \/ PollAttempt

SpecRqc == InitRqc /\ [][NextRqc]_vars

(***************************************************************************)
(* Properties of the client.                                               *)
(***************************************************************************)
Over == rqc_pc \in {"returned", "raised"}

TimedOut == rqc_pc = "raised" /\ error.kind = "RQCExecutionTimeoutError"

\* C4: the timeout error is raised for an execution exactly when its 90th poll
\* was answered with a non-terminal status like the 89 before it; with retry
\* budget 1 the caller sees the timeout after 2 submissions, 2 executions and
\* 180 polls.
C4_TimeoutAfter90PollsRunTwice ==
    /\ \A e \in 1..Len(polls) : polls[e] <= 90
    /\ \A e \in 1..Len(polls) : (e < Len(polls) \/ TimedOut) => polls[e] = 90 /\ ~terminal[e]
    /\ (rqc_pc = "create" /\ run_attempt > 0) =>
           polls[execution_id] = 90 /\ Len(polls) = run_attempt
    /\ (TimedOut /\ run_retries = 1) =>
           /\ submissions = 2
           /\ Len(polls) = 2
           /\ polls[1] + polls[2] = 180

C4_Witness == TimedOut /\ run_retries = 1 /\ polls = <<90, 90>> /\ submissions = 2

HasStatus(d) == "progress" \in DOMAIN d /\ "status" \in DOMAIN d.progress

\* a poll response without status, or COMPLETED without result
Malformed(d) ==
    /\ d # NoJson
    /\ \/ ~HasStatus(d)
       \/ d.progress.status = "COMPLETED" /\ "result" \notin DOMAIN d

\* C5: a further submit+poll cycle starts only when the poll loop of the one
\* before timed out, there are at most retries+1 cycles, and any other error
\* of submit or poll, the FAILED status included, ends the run at once.
C5_RetryOnlyAfterTimeout ==
    [][/\ ~Over
       /\ (rqc_pc # "create" /\ rqc_pc' = "create") =>
              /\ error'.kind = "RQCExecutionTimeoutError"
              /\ polls'[execution_id] = 90 /\ ~terminal'[execution_id]
              /\ run_attempt' = run_attempt + 1
       /\ submissions' > submissions =>
              (submissions = 0 \/ error.kind = "RQCExecutionTimeoutError")
       /\ submissions' <= run_retries + 1
       /\ error'.kind \notin {"none", "RQCExecutionTimeoutError"} => rqc_pc' = "raised"
       /\ (execution_id' # 0 /\ terminal'[execution_id']) => Over'
       /\ Malformed(response_data') => Over'
      ]_vars

\* the job fails in the second cycle and the third cycle the budget allows is
\* not started
C5_Witness ==
    /\ rqc_pc = "raised" /\ error.kind = "StackSpotAIError"
    /\ run_retries = 2 /\ submissions = 2 /\ polls[1] = 90

\* C6: the poll that observes COMPLETED ends the loop with the response's
\* result, the poll that observes FAILED ends it with the job-failed error, any
\* other status is followed by a 10-second wait and, below 90 polls, the next
\* poll of the same execution; an execution that reported a terminal status or
\* was polled 90 times is not polled again.
C6_PollLoop ==
    [][LET d == response_data'
           polled == rqc_pc = "poll" /\ polls' # polls
       IN  /\ (polled /\ HasStatus(d) /\ d.progress.status = "COMPLETED") =>
                  /\ rqc_pc' = "returned"
                  /\ "result" \in DOMAIN d => return_value' = d.result
           /\ (polled /\ HasStatus(d) /\ d.progress.status = "FAILED") =>
                  rqc_pc' = "raised" /\ error'.kind = "StackSpotAIError"
           /\ (polled /\ HasStatus(d) /\ d.progress.status \notin {"COMPLETED", "FAILED"}) =>
                  /\ slept' = 10
                  /\ execution_time' = execution_time + 10
                  /\ polls'[execution_id] < 90 =>
                         /\ rqc_pc' = "poll"
                         /\ execution_id' = execution_id
                         /\ poll_attempt' = poll_attempt + 1
           /\ \A e \in 1..Len(polls) :
                  (terminal[e] \/ polls[e] >= 90) => polls'[e] = polls[e]
      ]_vars

\* the result of the third poll of the second execution is returned
C6_Witness ==
    /\ rqc_pc = "returned" /\ return_value = "r2"
    /\ polls = <<90, 3>> /\ terminal = <<FALSE, TRUE>>

\* C7: a poll response without the status field, and a COMPLETED poll response
\* without the result field, end the poll with an error raised to the caller,
\* never with a normal return.
C7_MalformedPollRaises == Malformed(response_data) => rqc_pc = "raised"

Retryable(o) == o.kind = "HTTPError" /\ o.status \in {401, 403, 500, 503}

\* C8 as stated: with the default budget, a request answered by a retryable
\* status every time gives up, the HTTP error raised, at its 3rd attempt.
C8_ThreeAttempts ==
    (req_retries = 3 /\ Retryable(req_outcome)) =>
        IF req_tries = 3 THEN rqc_pc = "raised" /\ error = req_outcome
        ELSE req_tries < 3 /\ ~Over

\* C8 amended: with the default budget of 3 retries, a request answered by a
\* retryable status every time gives up, the HTTP error raised, at its 4th
\* attempt and not before.
C8_FourAttempts ==
    (req_retries = 3 /\ Retryable(req_outcome)) =>
        IF req_tries = 4 THEN rqc_pc = "raised" /\ error = req_outcome
        ELSE req_tries < 4 /\ ~Over

C8_Witness ==
    /\ req_retries = 3 /\ Retryable(req_outcome) /\ req_tries = 4
    /\ rqc_pc = "raised" /\ error = req_outcome

\* C9: an attempt is retried exactly when it failed with HTTP status 401, 403,
\* 500 or 503 and budget remains, after a wait of 2, 4, 8 seconds for attempt
\* 0, 1, 2; any other failure is raised at once with no wait and is the last
\* attempt.
C9_RetryAndBackoff ==
    [][LET o == req_outcome'
           retry == Retryable(o) /\ req_attempt < req_retries
       IN  /\ ~Over
           /\ retry =>
                  /\ rqc_pc' = rqc_pc
                  /\ req_attempt' = req_attempt + 1
                  /\ req_attempt \in 0..2 /\ slept' = <<2, 4, 8>>[req_attempt + 1]
           /\ (o.kind # "return" /\ ~retry) =>
                  rqc_pc' = "raised" /\ error' = o /\ slept' = 0
           /\ req_attempt' > req_attempt => retry
      ]_vars

\* the third retry, after 8 seconds
C9_Witness == slept = 8 /\ req_attempt = 3 /\ ~Over /\ Retryable(req_outcome)

\* C30: no access token is reused: every attempt of a request to the job
\* service, of a submission or a poll, first attempt or retry, makes one
\* credential exchange of its own, so a request has made as many exchanges as
\* attempts, and a request is answered only in an attempt whose exchange gave
\* a token; an exchange that fails with status 401, 403, 500 or 503 is an HTTP
\* error of the attempt, retried after the same wait while budget remains and
\* raised when none does.
C30_ExchangePerAttempt ==
    [][/\ req_tries' = (IF req_attempt = 0 THEN 1 ELSE req_tries + 1)
       /\ exchanges' = (IF req_attempt = 0 THEN 1 ELSE exchanges + 1)
       /\ exchanges' = req_tries'
       /\ req_outcome'.kind = "return" => token_status' = 200
       /\ token_status' \in {401, 403, 500, 503} =>
              /\ req_outcome' = [kind |-> "HTTPError", status |-> token_status']
              /\ IF req_attempt < req_retries
                 THEN /\ rqc_pc' = rqc_pc
                      /\ req_attempt' = req_attempt + 1
                      /\ slept' = Pow2(req_attempt + 1)
                 ELSE /\ rqc_pc' = "raised"
                      /\ error' = req_outcome'
      ]_vars

\* the third poll of an execution: the exchanges of its first three attempts
\* failed, the fourth attempt is next
C30_Witness ==
    /\ rqc_pc = "poll"
    /\ polls = <<2>>
    /\ req_attempt = 3 /\ req_tries = 3 /\ exchanges = 3
    /\ token_status = 503

(***************************************************************************)
(* main.  A run_rqc call is one step that ends the way the client can end  *)
(* it: on the last poll response, by the timeout of its last cycle, or by  *)
(* an error of a request.                                                  *)
(***************************************************************************)
MaxBatches == 2

required_vars ==
    { "CI_PROJECT_ID", "CI_MERGE_REQUEST_IID", "CI_MERGE_REQUEST_SOURCE_BRANCH_NAME",
      "CI_MERGE_REQUEST_TARGET_BRANCH_NAME", "GITLAB_PERSONAL_TOKEN", "CI_API_V4_URL",
      "STACKSPOT_CLIENT_ID", "STACKSPOT_CLIENT_SECRET", "STACKSPOT_CLIENT_REALM" }

RQC_PARTIAL_SUMMARY_SLUG == "partial-summary"
RQC_TOTAL_SUMMARY_SLUG == "total-summary"

\* an except clause that catches whatever is raised, SystemExit included
ExceptionCatches_All(exception) == TRUE

\* except Exception: SystemExit, which sys.exit raises, is no Exception
ExceptionCatches(exception) == exception # "SystemExit"

\* results of the partial-summary job
PartialResults ==
    { PyNone,
      PyDict,
      PyStr(<<Json(Object("a"))>>),
      PyStr(<<Fence, Lang, Ws, Json(List(<<Object("b"), Object("c")>>)), Ws, Fence, Ws>>),
      PyStr(<<Fence, Json(Object("a")), Fence>>),
      PyStr(<<Json(EmptyObject)>>),
      PyStr(<<Json(List(<<>>))>>),
      PyStr(<<Json(String("s"))>>),
      PyStr(<<Json(Number(5))>>),
      PyStr(<<Json(List(<<Number(1)>>))>>),
      PyStr(<<JsonSummary("a", 60000)>>),
      PyStr(<<Fence, Lang, Ws, Chars(30, 1), Fence>>),
      PyStr(<<Chars(30, 1)>>),
      PyStr(<<>>) }

\* results of the total-summary job
TotalResults ==
    { PyNone,
      PyDict,
      PyStr(<<Chars(500, 1)>>),
      PyStr(<<Ws, Fence, Lang, Ws, Chars(500, 1), Ws, Fence, Ws>>),
      PyStr(<<Chars(10, 0), Chars(500, 1)>>),
      PyStr(<<Chars(1048576, 1)>>),
      PyStr(<<Chars(1048577, 1)>>),
      PyStr(<<Chars(1200000, 1)>>),
      PyStr(<<Chars(400000, 3)>>),
      PyStr(<<>>) }

\* the last poll response of a job
JobBodies(results) ==
    { [message |-> "m"],
      [progress |-> [percent |-> "50"]],
      [progress |-> [status |-> "COMPLETED"]],
      [progress |-> [status |-> "FAILED"]] }
        \cup {[progress |-> [status |-> "COMPLETED"], result |-> r] : r \in results}

\* how run_rqc ends on its last poll response
RunEnd(data) ==
    LET seen == PollOutcome(data)
    IN  IF seen.kind # "return" THEN Raised(seen.kind)
        ELSE IF "progress" \in DOMAIN data /\ "result" \in DOMAIN data
             THEN Return(data.result)
             ELSE Return(PyNone)

RunOutcomes(results) ==
    {RunEnd(data) : data \in JobBodies(results)}
        \cup {Raised(e) : e \in {"RQCExecutionTimeoutError", "HTTPError", "ConnectionError"}}

\* what get_gitlab_mr_diff gets from git: the listing and the diff
MainListings == {<<>>, <<"M", LF>>, <<"M", TAB, "a", LF>>}

RECURSIVE Repeat(_, _)
Repeat(x, n) == IF n = 0 THEN <<>> ELSE <<x>> \o Repeat(x, n - 1)

MainDiffs ==
    {<<>>, <<NL>>, FileDiff(16, 19960) \o <<NL>>, FileDiff(55000, 100) \o <<NL>>}
        \cup {JoinLines(Repeat(FileDiff(16, 29961), n)) : n \in 1..MaxBatches}

\* a test that takes no diff for empty
IsEmpty_Never(diff_text) == FALSE

\* main, line 570: not diff.strip()
IsEmpty(diff_text) == strip(diff_text) = <<>>

\* HTTP status of the answer to a comment post (0: no answer)
PostStatuses == {201, 401, 500, 0}

\* post_gitlab_mr_comment, line 237: response.json() is reached after
\* raise_for_status passed, and the body is a JSON document or it is not
PostJson(status) == IF status \in {200, 201} THEN BOOLEAN ELSE {TRUE}

\* post_gitlab_mr_comment, lines 219-237: how the call ends on an answer
PostOutcome(status, json) ==
    IF status = 0 THEN Raised("ConnectionError")
    ELSE IF status \notin {200, 201} THEN Raised("HTTPError")
    ELSE IF ~json THEN Raised("JSONDecodeError")
    ELSE Return(PyDict)

\* a list builder that appends a list result as one item
Collect_AppendList(summaries, partial_summary) ==
    IF Truthy(partial_summary) THEN Append(summaries, partial_summary) ELSE summaries

\* get_partial_summaries: what a parsed result adds to partial_summaries
Collect(summaries, partial_summary) ==
    IF ~Truthy(partial_summary) THEN summaries
    ELSE IF partial_summary.t = "list" THEN summaries \o partial_summary.items
    ELSE Append(summaries, partial_summary)

\* ps.get('file') works for every item
AllHaveGet(summaries) == \A i \in 1..Len(summaries) : summaries[i].t = "object"

\* len(dumps(v)) of an object
DumpsItem(v) ==
    IF "summary" \in DOMAIN v THEN 28 + v.summary
    ELSE IF "file" \in DOMAIN v THEN 13
    ELSE 2

RECURSIVE DumpsItems(_)
DumpsItems(summaries) ==
    IF summaries = <<>> THEN 0
    ELSE DumpsItem(Head(summaries)) + DumpsItems(Tail(summaries))

\* len(dumps(partial_summaries)): brackets, the documents, separators
DumpsBytes(summaries) ==
    IF summaries = <<>> THEN 2
    ELSE 2 + DumpsItems(summaries) + 2 * (Len(summaries) - 1)

\* a summarizer that strips the response outside its try block
get_total_summary_Unguarded(out) ==
    IF out.kind # "return" THEN Return(FallbackComment)
    ELSE IF out.value.type # "str" THEN Raised("AttributeError")
    ELSE Return(strip_response(out.value.text))

\* get_total_summary, given how its run_rqc call ended
get_total_summary(out) ==
    IF out.kind = "return" /\ out.value.type = "str"
    THEN Return(strip_response(out.value.text))
    ELSE Return(FallbackComment)

\* what post_gitlab_mr_comment sends for a comment
PostBody(comment_body) ==
    validate_comment_size(sanitize_for_json(validate_encoding(comment_body)))

InitMain ==
    /\ DiffIdle
    /\ FilterIdle
    /\ RqcIdle
    /\ main_pc = "start"
    /\ env \in SUBSET required_vars
    /\ exit_code = -1
    /\ git_runs = 0
    /\ batch_index = 0
    /\ partial_summary_response = PyNone
    /\ parsed = Raised("none")
    /\ partial_summaries = <<>>
    /\ jobs = <<>>
    /\ comment = <<>>
    /\ caught = NoException
    /\ posts = <<>>

\* main, lines 536-548: the check of the environment
CheckEnvironment ==
    /\ main_pc = "start"
    /\ LET missing_vars == required_vars \ env
       IN  IF missing_vars = {}
           THEN /\ main_pc' = "get_gitlab_mr_diff"
                /\ UNCHANGED <<exit_code, caught>>
           ELSE IF ExceptionCatches("SystemExit")
                THEN /\ main_pc' = "except"
                     /\ caught' = [kind |-> "SystemExit"]
                     /\ UNCHANGED exit_code
                ELSE /\ main_pc' = "exited"
                     /\ exit_code' = 1
                     /\ UNCHANGED caught
    /\ UNCHANGED <<env, git_runs, batch_index, partial_summary_response, parsed,
                   partial_summaries, jobs, comment, posts,
                   diffVars, filterVars, rqcVars>>

\* main, lines 568-572: get_gitlab_mr_diff and the test for an empty diff; for a
\* diff that is not empty, the first lines of get_partial_summaries as well
GetDiffOf(diffs) ==
    /\ main_pc = "get_gitlab_mr_diff"
    /\ \E listing \in MainListings, diff_content \in diffs, git \in {"ok", "failed"} :
        LET statuses == _parse_name_status(listing)
            allowed == filter_changed_files(statuses, should_include)
            stripped == IF allowed = <<>> THEN <<>> ELSE strip(diff_content)
        IN  /\ output' = listing
            /\ IF git = "failed"
               THEN /\ git_runs' = 1
                    /\ main_pc' = "except"
                    /\ caught' = [kind |-> "ValueError"]
                    /\ UNCHANGED <<exit_code, batch_index, diffVars, file_statuses,
                                   include_func, allowed_paths, filter_pc>>
               ELSE /\ git_runs' = IF allowed = <<>> THEN 2 ELSE 3
                    /\ file_statuses' = statuses
                    /\ include_func' = should_include
                    /\ allowed_paths' = allowed
                    /\ filter_pc' = "returned"
                    /\ diff' = stripped
                    /\ UNCHANGED <<caught, file_diff, simplified_diff>>
                    /\ IF IsEmpty(stripped)
                       THEN /\ main_pc' = "exited"
                            /\ exit_code' = 0
                            /\ UNCHANGED <<batch_index, pc, file_diffs, joint_diffs,
                                           batch_file_headers>>
                       ELSE /\ main_pc' = "get_partial_summaries"
                            /\ file_diffs' = split_diff(stripped)
                            /\ joint_diffs' = prepare_file_diffs(file_diffs')
                            /\ batch_file_headers' =
                                   [i \in 1..Len(joint_diffs') |->
                                       BatchFileHeaders(joint_diffs'[i])]
                            /\ pc' = "inputs"
                            /\ batch_index' = 1
                            /\ UNCHANGED exit_code
    /\ UNCHANGED <<env, partial_summary_response, parsed, partial_summaries, jobs,
                   comment, posts, rqcVars>>

GetDiff == GetDiffOf(MainDiffs)

\* a loop that takes every batch for the last one
IsLastBatch_First(index, inputs) == TRUE

\* get_partial_summaries, line 495: the loop over inputs ends with its last item
IsLastBatch(index, inputs) == index >= Len(inputs)

\* get_partial_summaries, lines 502-513 of the iteration whose run_rqc call
\* ended with out and, after the last one, the rest of the function and of main
\* up to the next call; job is the entry of the call in the log
AfterPartialSummaryJob(out, job) ==
    LET returned == out.kind = "return"
        partial_summary == IF returned THEN parse_json_response(out.value)
                           ELSE Raised("none")
        summaries == IF partial_summary.kind = "return"
                     THEN Collect(partial_summaries, partial_summary.value)
                     ELSE partial_summaries
    IN  /\ jobs' = Append(jobs, job)
        /\ partial_summary_response' = IF returned THEN out.value ELSE PyNone
        /\ parsed' = partial_summary
        /\ partial_summaries' = summaries
        /\ batch_index' = batch_index + 1
        /\ IF ~IsLastBatch(batch_index, joint_diffs)
           THEN /\ main_pc' = "get_partial_summaries"
                /\ UNCHANGED <<comment, caught>>
           ELSE IF ~AllHaveGet(summaries)
                THEN /\ main_pc' = "except"
                     /\ caught' = [kind |-> "AttributeError"]
                     /\ UNCHANGED comment
                ELSE IF summaries = <<>>
                     THEN /\ main_pc' = "post_gitlab_mr_comment"
                          /\ comment' = NoChangesComment
                          /\ UNCHANGED caught
                     ELSE /\ main_pc' = "get_total_summary"
                          /\ UNCHANGED <<comment, caught>>

\* get_partial_summaries: one iteration of the loop over the batches and, after
\* the last one, the rest of the function and of main up to the next call
PartialSummaryJob ==
    /\ main_pc = "get_partial_summaries"
    /\ batch_index <= Len(joint_diffs)
    /\ \E out \in RunOutcomes(PartialResults) :
        AfterPartialSummaryJob(out, [slug |-> RQC_PARTIAL_SUMMARY_SLUG,
                                     batch |-> batch_index,
                                     bytes |-> SumBytes(joint_diffs[batch_index]),
                                     kind |-> out.kind,
                                     response |-> IF out.kind = "return" THEN out.value
                                                  ELSE PyNone])
    /\ UNCHANGED <<env, exit_code, git_runs, posts, diffVars, filterVars, rqcVars>>

\* main, line 580, once the run_rqc call of get_total_summary ended with out
AfterTotalSummaryJob(out, job) ==
    LET total == get_total_summary(out)
    IN  /\ jobs' = Append(jobs, job)
        /\ IF total.kind = "return"
           THEN /\ comment' = total.value
                /\ main_pc' = "post_gitlab_mr_comment"
                /\ UNCHANGED caught
           ELSE /\ caught' = [kind |-> total.kind]
                /\ main_pc' = "except"
                /\ UNCHANGED comment

\* main, line 580: get_total_summary
TotalSummaryJob ==
    /\ main_pc = "get_total_summary"
    /\ \E out \in RunOutcomes(TotalResults) :
        AfterTotalSummaryJob(out, [slug |-> RQC_TOTAL_SUMMARY_SLUG,
                                   batch |-> 0,
                                   bytes |-> DumpsBytes(partial_summaries),
                                   kind |-> out.kind,
                                   response |-> IF out.kind = "return" THEN out.value
                                                ELSE PyNone])
    /\ UNCHANGED <<env, exit_code, git_runs, batch_index, partial_summary_response,
                   parsed, partial_summaries, posts, diffVars, filterVars, rqcVars>>

\* main, line 582: post_gitlab_mr_comment(comment)
PostComment ==
    /\ main_pc = "post_gitlab_mr_comment"
    /\ \E status \in PostStatuses : \E json \in PostJson(status) :
        LET out == PostOutcome(status, json)
        IN  /\ posts' = Append(posts, [comment_body |-> comment,
                                       body |-> PostBody(comment),
                                       status |-> status,
                                       json |-> json])
            /\ IF out.kind = "return"
               THEN /\ main_pc' = "exited"
                    /\ exit_code' = 0
                    /\ UNCHANGED caught
               ELSE /\ main_pc' = "except"
                    /\ caught' = [kind |-> out.kind]
                    /\ UNCHANGED exit_code
    /\ UNCHANGED <<env, git_runs, batch_index, partial_summary_response, parsed,
                   partial_summaries, jobs, comment, diffVars, filterVars, rqcVars>>

\* main, lines 586-595: the except clause
PostErrorComment ==
    /\ main_pc = "except"
    /\ \E status \in PostStatuses : \E json \in PostJson(status) :
        posts' = Append(posts, [comment_body |-> ErrorComment(caught.kind),
                                body |-> PostBody(ErrorComment(caught.kind)),
                                status |-> status,
                                json |-> json])
    /\ main_pc' = "exited"
    /\ exit_code' = 1
    /\ UNCHANGED <<env, git_runs, batch_index, partial_summary_response, parsed,
                   partial_summaries, jobs, comment, caught, diffVars, filterVars, rqcVars>>

NextMain ==
    \/ CheckEnvironment
    \/ GetDiff
    \/ PartialSummaryJob
    \/ TotalSummaryJob
    \/ PostComment
    \/ PostErrorComment

SpecMain == InitMain /\ [][NextMain]_vars

(***************************************************************************)
(* Properties of main.                                                     *)
(***************************************************************************)
IsPartialJob(job) == job.slug = "partial-summary"

PartialJobs == SelectSeq(jobs, IsPartialJob)

\* the latest run_rqc call
LastJob == jobs[Len(jobs)]

\* C16: parse_json_response ends with a value, never with an exception, for
\* whatever run_rqc returned, and with the empty object for a text that is no
\* JSON document.
C16_ParseNeverRaises ==
    /\ parsed.kind \in {"none", "return"}
    /\ (/\ parsed.kind = "return"
        /\ partial_summary_response.type = "str"
        /\ loads(strip_response(partial_summary_response.text)).kind # "return") =>
           parsed.value = EmptyObject

\* what the result of one batch job is to add to the list
OutputOf(job) ==
    IF job.kind # "return" \/ job.response.type # "str" THEN <<>>
    ELSE LET doc == loads(strip_response(job.response.text))
         IN  IF doc.kind # "return" \/ ~Truthy(doc.value) THEN <<>>
             ELSE IF doc.value.t = "list" THEN doc.value.items
             ELSE <<doc.value>>

RECURSIVE Flattened(_)
Flattened(js) == IF js = <<>> THEN <<>> ELSE OutputOf(Head(js)) \o Flattened(Tail(js))

InBatchLoop == main_pc = "get_partial_summaries"

\* get_partial_summaries is over, with a list returned or an exception raised
BatchLoopOver == batch_index = Len(joint_diffs) + 1 /\ joint_diffs # <<>>

\* C17: the batch jobs run one per batch in batch order, whatever the jobs
\* before them ended with: in the loop the jobs of all the batches before the
\* one at hand have run, after it the jobs of all batches; the list is the
\* in-order flattening of the outputs of the batches that succeeded with a
\* non-empty value, and that is the list returned.
C17_EveryBatchRunsSuccessesFlattened ==
    /\ InBatchLoop => Len(PartialJobs) = batch_index - 1
    /\ BatchLoopOver => Len(PartialJobs) = Len(joint_diffs)
    /\ \A i \in 1..Len(PartialJobs) :
          /\ PartialJobs[i].batch = i
          /\ PartialJobs[i].bytes = SumBytes(joint_diffs[i])
    /\ (InBatchLoop \/ BatchLoopOver) => partial_summaries = Flattened(PartialJobs)

\* the first batch failed, the second gave a fenced list of two
C17_Witness ==
    /\ main_pc = "get_total_summary"
    /\ Len(PartialJobs) = 2
    /\ PartialJobs[1].kind = "StackSpotAIError"
    /\ PartialJobs[2].kind = "return"
    /\ partial_summaries = <<Object("b"), Object("c")>>

\* the total-summary job has run and no comment post was attempted yet
TotalSummaryDone == jobs # <<>> /\ LastJob.slug = "total-summary" /\ posts = <<>>

\* C18: the call of get_total_summary returns: the text of the job with the
\* code fence stripped when the job completed with a text, the fallback message
\* in every other case.
C18_TotalSummaryNeverRaises ==
    TotalSummaryDone =>
        /\ main_pc = "post_gitlab_mr_comment"
        /\ caught = NoException
        /\ comment = IF LastJob.kind = "return" /\ LastJob.response.type = "str"
                     THEN strip_response(LastJob.response.text)
                     ELSE FallbackComment

\* the job completed with a result that is no text
C18_Witness ==
    /\ TotalSummaryDone
    /\ LastJob.kind = "return" /\ LastJob.response = PyDict
    /\ comment = FallbackComment
    /\ main_pc = "post_gitlab_mr_comment"

\* C19: every body sent is at most 1,048,576 bytes: a comment over the ceiling
\* is sent cut to 1,048,000 bytes with the suffix of 35 bytes, any other as it
\* is.
C19_PostedBodyWithinCeiling ==
    \A i \in 1..Len(posts) :
        LET text == validate_encoding(posts[i].comment_body)
        IN  /\ LenBytes(posts[i].body) <= 1048576
            /\ IF LenBytes(text) > 1048576
               THEN LenBytes(posts[i].body) = 1048000 + 35
               ELSE posts[i].body = text

\* C20: in a run with a required variable missing or empty no git command is
\* run, no job is started and no comment post is attempted, and the run ends
\* at once with exit code 1.
C20_MissingConfigExitsBeforeAnyCall ==
    required_vars \ env # {} =>
        /\ git_runs = 0
        /\ jobs = <<>>
        /\ posts = <<>>
        /\ main_pc \in {"start", "exited"}
        /\ main_pc = "exited" => exit_code = 1

\* only a variable that posting does not need is missing
C20_Witness ==
    /\ required_vars \ env = {"STACKSPOT_CLIENT_REALM"}
    /\ main_pc = "exited" /\ exit_code = 1
    /\ posts = <<>> /\ jobs = <<>> /\ git_runs = 0

\* get_gitlab_mr_diff returned the empty text
EmptyDiff == filter_pc = "returned" /\ diff = <<>>

\* C21: when the diff is empty, because no changed path passes the filter or
\* because the diff of the allowed paths is blank, the run has ended with exit
\* code 0, no job was submitted and no comment post was attempted.
C21_EmptyDiffExitsQuietly ==
    EmptyDiff =>
        /\ main_pc = "exited"
        /\ exit_code = 0
        /\ jobs = <<>>
        /\ posts = <<>>

\* a listing with a line and no path to allow: the diff command is not run
C21_Witness ==
    /\ EmptyDiff
    /\ output = <<"M", LF>>
    /\ allowed_paths = <<>>
    /\ git_runs = 2
    /\ main_pc = "exited" /\ exit_code = 0
    /\ jobs = <<>> /\ posts = <<>>

\* a path is allowed and the diff of it is blank
C21_BlankDiff ==
    /\ EmptyDiff
    /\ allowed_paths = <<"a">>
    /\ git_runs = 3
    /\ main_pc = "exited" /\ exit_code = 0

IsTotalJob(job) == job.slug = "total-summary"

TotalJobs == SelectSeq(jobs, IsTotalJob)

\* how the run_rqc call of a job ended
OutcomeOf(job) == IF job.kind = "return" THEN Return(job.response) ELSE Raised(job.kind)

\* the comment is the next thing to post, or it is what was posted first
PostsFirst(text) ==
    \/ main_pc = "post_gitlab_mr_comment" /\ posts = <<>> /\ comment = text
    \/ posts # <<>> /\ posts[1].comment_body = text

\* C22: after the batch loop of a diff that is not empty, with no partial
\* summary main posts the fixed comment and submits no total-summary job; with
\* at least one it submits the total-summary job and posts what
\* get_total_summary returns.
C22_CommentBySummaries ==
    BatchLoopOver =>
        IF partial_summaries = <<>>
        THEN /\ TotalJobs = <<>>
             /\ PostsFirst(NoChangesComment)
        ELSE \/ main_pc = "get_total_summary" /\ TotalJobs = <<>> /\ posts = <<>>
             \/ /\ Len(TotalJobs) = 1
                /\ PostsFirst(get_total_summary(OutcomeOf(TotalJobs[1])).value)

\* the same, for lists of partial summaries that are all objects
C22_CommentByObjectSummaries == AllHaveGet(partial_summaries) => C22_CommentBySummaries

IsErrorPost(post) ==
    /\ Len(post.comment_body) = 2
    /\ post.comment_body[2].a = "AI Summary Failed"

ErrorPosts == SelectSeq(posts, IsErrorPost)

\* an exception reached the except clause of main
Caught == caught # NoException

\* C23: when get_gitlab_mr_diff, get_partial_summaries or the comment post
\* raised in main, the run posts the error comment with the description of
\* that exception exactly once, as its last post, and ends with exit code 1,
\* whether that post succeeded or not; a run in which nothing was raised posts
\* no error comment.
C23_ErrorCommentOnceThenExit1 ==
    /\ Caught =>
          /\ main_pc \in {"except", "exited"}
          /\ main_pc = "except" => ErrorPosts = <<>> /\ exit_code = -1
          /\ main_pc = "exited" =>
                /\ exit_code = 1
                /\ Len(ErrorPosts) = 1
                /\ IsErrorPost(posts[Len(posts)])
                /\ posts[Len(posts)].comment_body[2].e = caught.kind
                /\ Len(posts) <= 2
                /\ Len(posts) = 2 <=>
                       caught.kind \in {"HTTPError", "ConnectionError", "JSONDecodeError"}
                /\ Len(posts) = 2 => ~IsErrorPost(posts[1])
    /\ ~Caught => ErrorPosts = <<>>

\* the comment post failed, and the post of the error comment failed too
C23_Witness ==
    /\ Caught
    /\ caught.kind = "HTTPError"
    /\ main_pc = "exited" /\ exit_code = 1
    /\ Len(posts) = 2
    /\ posts[1].status = 500 /\ ~IsErrorPost(posts[1])
    /\ posts[2].status = 0 /\ IsErrorPost(posts[2])

\* post_gitlab_mr_comment, lines 195-198: the variables a post reads
PostingVars ==
    {"CI_PROJECT_ID", "CI_MERGE_REQUEST_IID", "GITLAB_PERSONAL_TOKEN", "CI_API_V4_URL"}

\* the run ended with a nonzero exit code
Failed == main_pc = "exited" /\ exit_code \notin {-1, 0}

\* C24: every run that ended with a nonzero exit code and has the variables
\* that posting needs has attempted to post the error comment before it
\* ended, so that the comment is there whenever the endpoint accepts it; runs
\* that miss some other required variable included.
C24_EveryFailureCommented ==
    (Failed /\ PostingVars \subseteq env) => ErrorPosts # <<>>

\* the same for the runs that passed the check of the environment
C24_FailureAfterCheckCommented ==
    (Failed /\ required_vars \subseteq env) => ErrorPosts # <<>>

\* get_partial_summaries returned its list: main is at a step after the call
PartialSummariesReturned ==
    \/ main_pc \in {"get_total_summary", "post_gitlab_mr_comment"}
    \/ posts # <<>> /\ ~IsErrorPost(posts[1])

\* C31: whatever the batch jobs returned, a number, a string or a list of
\* scalars included, get_partial_summaries returns its list once the loop over
\* the batches is over, and no exception of it reaches the except clause of
\* main.
C31_PartialSummariesNeverRaise ==
    BatchLoopOver =>
        /\ PartialSummariesReturned
        /\ caught.kind # "AttributeError"

\* the same, for lists of partial summaries that are all objects
C31_ObjectSummariesNeverRaise ==
    AllHaveGet(partial_summaries) => C31_PartialSummariesNeverRaise

\* the endpoint accepted the comment of the post
Accepted(post) == post.status \in {200, 201}

AcceptedPosts == SelectSeq(posts, Accepted)

\* C32: a run attempts at most two posts and at most one comment is posted
\* successfully: the error comment is attempted only when no post before it
\* was accepted, and a run that ended with exit code 0 has posted exactly one
\* comment or, for an empty diff, none.
C32_AtMostOneCommentPosted ==
    /\ Len(posts) <= 2
    /\ Len(AcceptedPosts) <= 1
    /\ \A i \in 1..Len(posts) :
           IsErrorPost(posts[i]) => \A j \in 1..(i - 1) : ~Accepted(posts[j])
    /\ (main_pc = "exited" /\ exit_code = 0) =>
           \/ posts = <<>> /\ EmptyDiff
           \/ Len(posts) = 1 /\ Accepted(posts[1])

\* the same, for the runs in which every accepted post was answered with a
\* JSON document
C32_AtMostOneCommentPostedJsonAnswers ==
    (\A i \in 1..Len(posts) : Accepted(posts[i]) => posts[i].json) =>
        C32_AtMostOneCommentPosted

\* post_gitlab_mr_comment returned for every post of the run
EveryPostSucceeded ==
    \A i \in 1..Len(posts) : PostOutcome(posts[i].status, posts[i].json).kind = "return"

\* the run ended, with the configuration complete, the diff retrieved and a
\* comment posted, every post of it with success
EndedWithOnlyJobFailures ==
    /\ main_pc = "exited"
    /\ required_vars \subseteq env
    /\ caught.kind # "ValueError"
    /\ posts # <<>>
    /\ EveryPostSucceeded

\* C33: failures of the remote jobs alone never make the run fail.  A run
\* with complete configuration, a retrieved diff and a successful post ends
\* with exit code 0 and no error comment, however the partial-summary and
\* total-summary jobs ended (completed with any result, FAILED, timed out, HTTP
\* error), and its comment is the total summary, the fixed fallback message or
\* the fixed message of no significant changes.
C33_JobFailuresNeverFailRun ==
    EndedWithOnlyJobFailures =>
        /\ exit_code = 0
        /\ ErrorPosts = <<>>
        /\ Len(posts) = 1
        /\ \/ posts[1].comment_body = NoChangesComment /\ TotalJobs = <<>>
           \/ /\ Len(TotalJobs) = 1
              /\ posts[1].comment_body = get_total_summary(OutcomeOf(TotalJobs[1])).value
              /\ OutcomeOf(TotalJobs[1]).kind # "return" =>
                     posts[1].comment_body = FallbackComment

\* the same, for the runs whose partial summaries are all objects
C33_JobFailuresNeverFailRunObjectSummaries ==
    AllHaveGet(partial_summaries) => C33_JobFailuresNeverFailRun

\* a run of two batches whose first job raised and whose total-summary job
\* raised: the fallback message was posted and the run ended with exit code 0
C33_FailedJobsExit0 ==
    /\ EndedWithOnlyJobFailures
    /\ exit_code = 0
    /\ Len(jobs) = 3
    /\ jobs[1].kind = "StackSpotAIError"
    /\ jobs[3].kind = "RQCExecutionTimeoutError"
    /\ posts[1].comment_body = FallbackComment

\* batch b is one segment that is over the ceiling after degradation
OversizeSegment(b) ==
    /\ b \in 1..Len(BatchSegments)
    /\ BatchSegments[b] = 1
    /\ SumBytes(joint_diffs[b]) > MAX_RQC_INPUT_SIZE_BYTES

\* C26: every input payload submitted in a run, of a partial-summary job or of
\* the total-summary job, is at most 50,000 bytes, but for a partial-summary
\* batch that is one segment over the ceiling after degradation.
C26_PayloadsWithinCeiling ==
    \A i \in 1..Len(jobs) :
        \/ jobs[i].bytes <= MAX_RQC_INPUT_SIZE_BYTES
        \/ IsPartialJob(jobs[i]) /\ OversizeSegment(jobs[i].batch)

\* the same for the partial-summary jobs alone
C26_PartialPayloadsWithinCeiling ==
    \A i \in 1..Len(jobs) :
        IsPartialJob(jobs[i]) =>
            \/ jobs[i].bytes <= MAX_RQC_INPUT_SIZE_BYTES
            \/ OversizeSegment(jobs[i].batch)

\* a partial-summary job was given one segment over the ceiling
C26_OversizeBatchSubmitted ==
    \E i \in 1..Len(jobs) :
        IsPartialJob(jobs[i]) /\ jobs[i].bytes > MAX_RQC_INPUT_SIZE_BYTES

(***************************************************************************)
(* The whole run: main with every run_rqc call made step by step by the    *)
(* client, one request attempt at a time.  The result field of a poll      *)
(* response, opaque to the client, is here the text the job produced.      *)
(***************************************************************************)
\* the diffs of the whole run: none, and one of every number of batches
RunDiffs == {<<>>} \cup {JoinLines(Repeat(FileDiff(16, 29961), n)) : n \in 1..MaxBatches}

GetRunDiff == GetDiffOf(RunDiffs)

\* the Python value behind what the call returned
ResultOf(slug, value) ==
    IF value = None THEN PyNone
    ELSE IF slug = RQC_PARTIAL_SUMMARY_SLUG
         THEN (IF value = "r1" THEN PyStr(<<Json(Object("a"))>>)
               ELSE PyStr(<<Json(String("s"))>>))
         ELSE (IF value = "r1" THEN PyStr(<<Chars(500, 1)>>) ELSE PyDict)

\* how the run_rqc call at hand ended
RunRqcOutcome(slug) ==
    IF rqc_pc = "returned" THEN Return(ResultOf(slug, return_value))
    ELSE Raised(error.kind)

\* run_rqc is left: its locals and those of the functions it called are gone
RunRqcOver ==
    /\ rqc_pc' = "idle"
    /\ run_retries' = 0
    /\ run_attempt' = 0
    /\ execution_id' = 0
    /\ poll_attempt' = 0
    /\ execution_time' = 0
    /\ response_data' = NoJson
    /\ req_method' = "none"
    /\ req_retries' = 0
    /\ req_attempt' = 0
    /\ req_tries' = 0
    /\ req_outcome' = NoError
    /\ exchanges' = 0
    /\ token_status' = 0
    /\ return_value' = None
    /\ error' = NoError
    /\ slept' = 0
    /\ submissions' = 0
    /\ polls' = <<>>
    /\ terminal' = <<>>

\* lines 501 and 526: run_rqc is called with the default retries
RunRqc ==
    /\ rqc_pc = "idle"
    /\ \/ /\ main_pc = "get_partial_summaries"
          /\ batch_index <= Len(joint_diffs)
          /\ main_pc' = "run_rqc partial-summary"
       \/ /\ main_pc = "get_total_summary"
          /\ main_pc' = "run_rqc total-summary"
    /\ rqc_pc' = "create"
    /\ run_retries' = DEFAULT_RUN_RETRIES
    /\ req_method' = "POST"
    /\ req_retries' = DEFAULT_REQUEST_RETRIES
    /\ UNCHANGED <<run_attempt, execution_id, poll_attempt, execution_time, response_data,
                   req_attempt, req_tries, req_outcome, exchanges, token_status,
                   return_value, error, slept, submissions, polls, terminal>>
    /\ UNCHANGED <<env, exit_code, git_runs, batch_index, partial_summary_response, parsed,
                   partial_summaries, jobs, comment, caught, posts, diffVars, filterVars>>

\* the run_rqc call of a batch is over: the rest of the loop iteration
PartialSummaryJobEnds ==
    /\ main_pc = "run_rqc partial-summary"
    /\ Over
    /\ AfterPartialSummaryJob(RunRqcOutcome(RQC_PARTIAL_SUMMARY_SLUG),
                              [slug |-> RQC_PARTIAL_SUMMARY_SLUG,
                               batch |-> batch_index,
                               bytes |-> SumBytes(joint_diffs[batch_index]),
                               submissions |-> submissions])
    /\ RunRqcOver
    /\ UNCHANGED <<env, exit_code, git_runs, posts, diffVars, filterVars>>

\* the run_rqc call of get_total_summary is over
TotalSummaryJobEnds ==
    /\ main_pc = "run_rqc total-summary"
    /\ Over
    /\ AfterTotalSummaryJob(RunRqcOutcome(RQC_TOTAL_SUMMARY_SLUG),
                            [slug |-> RQC_TOTAL_SUMMARY_SLUG,
                             batch |-> 0,
                             bytes |-> DumpsBytes(partial_summaries),
                             submissions |-> submissions])
    /\ RunRqcOver
    /\ UNCHANGED <<env, exit_code, git_runs, batch_index, partial_summary_response,
                   parsed, partial_summaries, posts, diffVars, filterVars>>

NextRun ==
    \/ CheckEnvironment
    \/ GetRunDiff
    \/ RunRqc
    \/ SubmitAttempt
    \/ PollAttempt
    \/ PartialSummaryJobEnds
    \/ TotalSummaryJobEnds
    \/ PostComment
    \/ PostErrorComment

SpecRun == InitMain /\ [][NextRun]_vars

(***************************************************************************)
(* Properties of the whole run.                                            *)
(***************************************************************************)
\* the client is submitting or polling an execution
InCall == rqc_pc \in {"create", "poll"}

\* the executions the call at hand submitted before the latest one timed out
EarlierTimedOut(last) ==
    \A e \in 1..(last - 1) : polls[e] = RQC_TIMEOUT_LIMIT /\ ~terminal[e]

\* the log holds the jobs of the batches 1..n, in order, and nothing else
BatchJobsEnded(n) ==
    /\ Len(jobs) = n
    /\ \A i \in 1..n : IsPartialJob(jobs[i]) /\ jobs[i].batch = i

\* C25: jobs run one after another.  The client has at most one execution in
\* hand: a new one is submitted only when every execution the call submitted
\* before timed out, and only the latest is polled.  While the job of batch i
\* is submitted or polled the calls of the batches before it are over and
\* logged and no other is; while the total-summary job is, those of all the
\* batches are; and a comment post is attempted only with no call in
\* progress, the text of get_total_summary only after the total-summary job.
C25_JobsStrictlySequential ==
    /\ InCall => main_pc \in {"run_rqc partial-summary", "run_rqc total-summary"}
    /\ rqc_pc = "create" => EarlierTimedOut(Len(polls) + 1)
    /\ rqc_pc = "poll" => execution_id = Len(polls) /\ EarlierTimedOut(Len(polls))
    /\ Len(polls) <= submissions /\ submissions <= Len(polls) + 1
    /\ main_pc \in {"get_partial_summaries", "run_rqc partial-summary"} =>
           /\ batch_index \in 1..Len(joint_diffs)
           /\ BatchJobsEnded(batch_index - 1)
    /\ main_pc \in {"get_total_summary", "run_rqc total-summary"} =>
           BatchJobsEnded(Len(joint_diffs))
    /\ TotalJobs # <<>> =>
           /\ Len(jobs) = Len(joint_diffs) + 1
           /\ IsTotalJob(jobs[Len(jobs)])
           /\ \A i \in 1..Len(joint_diffs) : IsPartialJob(jobs[i]) /\ jobs[i].batch = i
    /\ (main_pc = "post_gitlab_mr_comment" \/ posts # <<>>) =>
           /\ rqc_pc = "idle"
           /\ Len(jobs) >= Len(joint_diffs)
    /\ (posts # <<>> /\ ~IsErrorPost(posts[1]) /\ posts[1].comment_body # NoChangesComment) =>
           Len(TotalJobs) = 1

\* the job of batch 1 timed out once and was submitted again; its call is over
\* and the job of batch 2 is being submitted
C25_Witness ==
    /\ main_pc = "run_rqc partial-summary"
    /\ batch_index = 2
    /\ Len(jobs) = 1 /\ jobs[1].submissions = 2
    /\ rqc_pc = "create" /\ submissions = 1 /\ polls = <<>>

RECURSIVE SubmissionsOf(_)
SubmissionsOf(js) ==
    IF js = <<>> THEN 0 ELSE Head(js).submissions + SubmissionsOf(Tail(js))

\* the job submissions of the run so far
TotalSubmissions == SubmissionsOf(jobs) + submissions

\* the steps the run_rqc call at hand can still take
RqcRank ==
    LET attempts == req_retries + 1
        cycle == attempts + RQC_TIMEOUT_LIMIT * attempts
    IN  CASE rqc_pc = "create" ->
                 (run_retries - run_attempt) * cycle
                     + (attempts - req_attempt) + RQC_TIMEOUT_LIMIT * attempts
          [] rqc_pc = "poll" ->
                 (run_retries - run_attempt) * cycle
                     + (RQC_TIMEOUT_LIMIT - poll_attempt) * attempts - req_attempt
          [] OTHER -> 0

\* the steps main itself can still take
MainRank ==
    CASE main_pc = "exited" -> 0
      [] main_pc = "except" -> 1
      [] main_pc = "post_gitlab_mr_comment" -> 2
      [] main_pc = "run_rqc total-summary" -> 3
      [] main_pc = "get_total_summary" -> 4
      [] main_pc = "run_rqc partial-summary" -> 5 + 2 * (Len(joint_diffs) - batch_index)
      [] main_pc = "get_partial_summaries" -> 6 + 2 * (Len(joint_diffs) - batch_index)
      [] main_pc = "get_gitlab_mr_diff" -> 5 + 2 * MaxBatches
      [] OTHER -> 6 + 2 * MaxBatches

\* a bound on the steps the run can still take
StepsLeft == MainRank * 1000 + RqcRank

\* the guard of a step of the run holds: main is at a step of its own with no
\* call in hand, or inside a run_rqc call that is submitting, polling or over
CanStep ==
    IF main_pc \in {"run_rqc partial-summary", "run_rqc total-summary"}
    THEN InCall \/ Over
    ELSE rqc_pc = "idle"

\* C27: every run ends, with a bounded number of remote calls whatever the
\* services answer: every step of the run lowers a bound on the steps left,
\* which is never negative, and a run that has not exited is at a step it can
\* take;
\* for a diff of B batches at most 2*(B+1) jobs are submitted, an execution is
\* polled at most 90 times, a request is attempted at most 4 times, and at
\* most two comment posts are attempted.
C27_BoundedRemoteCalls ==
    /\ [][StepsLeft' < StepsLeft]_vars
    /\ [](/\ StepsLeft >= 0
          /\ main_pc # "exited" => CanStep
          /\ TotalSubmissions <= 2 * (Len(joint_diffs) + 1)
          /\ \A e \in 1..Len(polls) : polls[e] <= 90
          /\ Len(polls) <= submissions
          /\ req_tries <= 4
          /\ Len(posts) <= 2)

\* a diff of two batches: each of the three jobs timed out once and was
\* submitted again, the comment post failed and the error comment was posted
C27_Witness ==
    /\ main_pc = "exited"
    /\ Len(joint_diffs) = 2
    /\ Len(jobs) = 3
    /\ TotalSubmissions = 6
    /\ Len(posts) = 2

====
